---- MODULE Spec2Model ----
(***************************************************************************)
(* Verification model of the FEDOT evolutionary optimizer core:            *)
(* selection operators (tournament, SPEA2), the initial population         *)
(* generator, and the engine parts described by the design document        *)
(* (variation operators with verification, evaluation cache, generation    *)
(* loop, archive).                                                         *)
(***************************************************************************)
EXTENDS Integers, Sequences, FiniteSets, TLC

VARIABLES
    \* ---- tournament_selection / random_selection (selection.py) ----
    individuals,    \* the population handed to tournament_selection
    pop_size,       \* the requested number of individuals
    chosen,         \* tournament_selection: chosen
    n_iter,         \* tournament_selection: n_iter
    group,          \* random_selection: its local list `chosen`
    rs_n_iter,      \* random_selection: its local n_iter
    pc,             \* position of the call
    \* ---- InitialPopulationGenerator (initial_graphs_generator.py) ----
    initial_graphs,       \* self.initial_graphs: None, or a list of graphs
    supplied_graphs,      \* the list last passed to with_initial_graphs
    generation_function,  \* self.generation_function: None, custom or random
    req_pop_size,         \* self.requirements.pop_size
    population,           \* __call__: population
    g_n_iter,             \* __call__: n_iter
    g_pop_size,           \* __call__: pop_size
    g_result,             \* what the last __call__ returned
    g_warned,             \* the last __call__ logged the exhaustion warning
    g_pc,                 \* position of the generator
    \* ---- spea2_selection (selection.py) ----
    s_individuals,  \* the population: the fitness values of each individual
    s_pop_size,     \* the requested number of individuals
    s_result,       \* the returned list, as positions of the input list
    s_pc,           \* position of the call
    \* ---- mutation and crossover operators (design document 4.4) ----
    op_kind,        \* the operator applied: mutation or crossover
    op_type,        \* the configured variant of the operator
    op_prob,        \* mutation_prob / crossover_prob, in percent
    op_input,       \* the graphs of the input individual or of both parents
    op_attempts,    \* attempts used up
    op_result,      \* the graphs of the returned individuals
    op_pc,          \* position of the operator application
    \* ---- objective evaluator and cache (design document 4.5) ----
    cache,          \* EvaluationCache: fingerprint -> fitness
    eval_calls,     \* invocations of the external function, per fingerprint
    ec_requested,   \* individuals handed over so far, per fingerprint
    ec_batch,       \* the fingerprints of the generation being evaluated
    ec_pending,     \* positions of the batch dispatched and not yet done
    ec_computed,    \* what the workers returned in this generation
    ec_results,     \* the fitness returned for each individual of the batch
    ec_gen,         \* generations evaluated
    ec_pc,          \* position of the evaluator
    \* ---- generation loop (design document 4.6) ----
    opt_state,      \* state of the loop
    timeout,        \* configured timeout, in clock ticks
    num_of_generations,           \* configured maximum of generations
    stopping_after_n_generation,  \* early-stopping window, 0: none
    generation_num,       \* generations completed
    elapsed,              \* elapsed wall-clock time
    best_fitness,         \* best archive fitness
    stagnation_duration,  \* generations without improvement
    history,              \* one entry per recorded population
    genetic_scheme_type,  \* "parameter_free" or a scheme of fixed size
    with_auto_depth_configuration,  \* the depth bound grows from start_depth
    cur_pop_size,         \* population size of the next generation
    max_pop_size,         \* configured ceiling of the population size
    cur_max_depth,        \* depth bound of the next generation
    start_depth,          \* configured start_depth
    max_depth,            \* configured ceiling of the depth (max_depth)
    \* ---- archive (design document 3, 4.6) ----
    archive,        \* the retained individuals
    archive_size,   \* configured maximum size
    a_updates,      \* update calls so far
    \* ---- OptHistory and log_to_history (opt_history.py) ----
    history_individuals,  \* history.individuals: one population per call
    archive_history,      \* history.archive_history: one archive per call
    save_folder,          \* history.save_folder is set
    saved_generation,     \* last generation id exported, -1 if none
    log_population,       \* the population the optimiser holds
    log_generations,      \* generations.best_individuals of the optimiser
    log_calls,            \* log_to_history calls so far
    \* ---- evaluation phase with time-limited fits (pipeline.py 74-126) ----
    ev_size,             \* individuals handed to the evaluation phase
    ev_fitness,          \* per individual: "unset", "valid" or "invalid"
    ev_current,          \* the individual being evaluated, 0 if none
    ev_evaluated,        \* the individuals handed on, once the phase is done
    ev_pc,               \* position of the evaluation phase
    computation_time,    \* per pipeline: computation_time is assigned
    fitted_operation,    \* per pipeline: the nodes' fitted_operation is set
    process_state_dict,  \* the dictionary _fit fills is filled
    fit_main,            \* position of _fit_with_time_limit
    fit_thread,          \* position of _fit in the thread func_timeout runs
    \* ---- GPComposer.compose_pipeline (gp_composer.py) ----
    opt_result,          \* the graphs optimizer.optimise returned
    is_multi_objective,  \* optimizer.objective.is_multi_objective
    best_model,          \* the value compose_pipeline returns
    best_models,         \* GPComposer.best_models
    cp_pc,               \* position of compose_pipeline
    \* ---- Pipeline.root_node (pipeline.py 294-302) ----
    rn_pipeline,   \* the pipeline whose root is looked up
    rn_result,     \* what the lookup gave: None, a node, or an exception
    rn_pc,         \* position of the lookup
    \* ---- SingletonMeta.__call__ (log.py 12-29) ----
    instances,     \* SingletonMeta._instances[cls]: 0 if absent, else the instance
    lock,          \* SingletonMeta._lock: the thread that holds it, 0 if free
    init_runs,     \* how often the constructor body of cls has run
    sm_pc,         \* per thread: its position in __call__
    sm_instance,   \* per thread: the local variable instance
    sm_calls,      \* per thread: the constructor calls it has started
    sm_returned,   \* the instances returned by the calls made so far
    \* ---- PipelineAdapter (adapters.py 24-32, 70-130) ----
    ad_heap,       \* the graph objects, in the order of their creation
    ad_origin,     \* per object: the object it was converted from, 0 if none
    ad_input,      \* the pipeline object 1 as it was before any call
    ad_call,       \* the last adapter call: operation, argument, result
    \* ---- rules_by_task (verification.py 29-65) ----
    common_rules,  \* the module-level list common_rules
    ts_rules,      \* the module-level list ts_rules
    class_rules,   \* the module-level list class_rules
    vr_returned,   \* the lists returned so far, each an object of its own
    vr_call,       \* the last call: task_type, rules, the list as returned
    \* ---- OptHistory.get_leaderboard (opt_history.py 245-278) ----
    lb_individuals, \* self.individuals: the generations, each a list
    lb_top_n,       \* the argument top_n
    lb_output,      \* the rows written to the output
    lb_pc,          \* "call" before the query, "done" after it
    \* ---- Selection.individuals_selection (selection.py 16-61) ----
    selection_types,  \* self.selection_types
    req_heap,         \* the requirements objects, in the order of creation
    self_requirements, \* self.requirements: the object the operator holds
    old_requirements, \* the local old_requirements, 0 before the copy
    is_individuals,   \* the list passed in (remaining_individuals is it)
    is_input,         \* the list passed in as it was at the call
    is_pop_size,      \* the local pop_size
    is_chosen,        \* the local chosen
    is_n_iter,        \* the local n_iter
    is_returned,      \* what was returned: the list passed in or a new one
    is_pc             \* "call", "loop", "returned" or "raised"

varsT == <<individuals, pop_size, chosen, n_iter, group, rs_n_iter, pc>>
varsG == <<initial_graphs, supplied_graphs, generation_function, req_pop_size, population,
           g_n_iter, g_pop_size, g_result, g_warned, g_pc>>

varsS == <<s_individuals, s_pop_size, s_result, s_pc>>

varsO == <<op_kind, op_type, op_prob, op_input, op_attempts, op_result,
           op_pc>>

varsC == <<cache, eval_calls, ec_requested, ec_batch, ec_pending,
           ec_computed, ec_results, ec_gen, ec_pc>>

varsP == <<genetic_scheme_type, with_auto_depth_configuration,
           cur_pop_size, max_pop_size, cur_max_depth, start_depth, max_depth>>

varsL == <<opt_state, timeout, num_of_generations,
           stopping_after_n_generation, generation_num, elapsed,
           best_fitness, stagnation_duration, history, varsP>>

varsA == <<archive, archive_size, a_updates>>

varsH == <<history_individuals, archive_history, save_folder,
           saved_generation, log_population, log_generations, log_calls>>

varsF == <<ev_size, ev_fitness, ev_current, ev_evaluated, ev_pc,
           computation_time, fitted_operation, process_state_dict,
           fit_main, fit_thread>>

varsM == <<opt_result, is_multi_objective, best_model, best_models, cp_pc>>

varsR == <<rn_pipeline, rn_result, rn_pc>>

varsN == <<instances, lock, init_runs, sm_pc, sm_instance, sm_calls,
           sm_returned>>

varsD == <<ad_heap, ad_origin, ad_input, ad_call>>

varsV == <<common_rules, ts_rules, class_rules, vr_returned, vr_call>>

varsB == <<lb_individuals, lb_top_n, lb_output, lb_pc>>

varsI == <<selection_types, req_heap, self_requirements, old_requirements,
           is_individuals, is_input, is_pop_size, is_chosen, is_n_iter,
           is_returned, is_pc>>

vars == <<varsT, varsG, varsS, varsO, varsC, varsL, varsA, varsH, varsF, varsM, varsR, varsN, varsD, varsV, varsB, varsI>>


\* ------------------------------------------------------------------------
\* Bounds of the model
\* ------------------------------------------------------------------------
MaxPop == 3         \* longest population handed to a selection
MaxUid == 2         \* individual ids are 1..MaxUid
MaxFit == 1         \* scalar fitness values are 0..MaxFit
MaxTarget == 2      \* largest requested selection size
MaxGraph == 2       \* graph structures generated or supplied: ids 1..MaxGraph
MaxSeeds == 2       \* longest list of seed graphs
MaxGenPop == 2      \* largest requirements.pop_size of the generator
MaxSpeaPop == 3     \* longest population handed to spea2_selection
MaxSpeaTarget == 3  \* largest size requested from spea2_selection
MaxObjective == 1   \* objective values are 0..MaxObjective
MaxDensityObjective == 3  \* objective values of the populations spread wide
MaxOpNodes == 2     \* most nodes of a graph handed to a variation operator
MaxNodes == 3       \* node ids are 1..MaxNodes: the size limit of a graph
MaxOpAttempts == 2  \* attempt budget of a variation operator
MaxDepth == 2       \* requirements.max_depth
MaxFingerprint == 2 \* structural fingerprints are 1..MaxFingerprint
MaxBatch == 2       \* most individuals evaluated in one generation
MaxCacheGens == 2   \* generations handed to the evaluator
MaxGenerations == 2 \* largest num_of_generations
MaxClock == 2       \* the clock stops at MaxClock ticks
MaxWindow == 1      \* largest early-stopping window
MaxBest == 1        \* best archive fitness is 0..MaxBest
MaxPopCeiling == 2  \* largest configured ceiling of the population size
MaxDepthCeiling == 2    \* largest configured max_depth
MaxArchive == 3     \* largest configured archive size
MaxArchiveObjective == 2  \* objective values of archived individuals
MaxArchiveBatch == 2    \* most individuals handed to one archive update
MaxArchiveUpdates == 3  \* archive update calls
MaxLogged == 3      \* log_to_history calls
MaxLoggedPopulation == 2  \* population lists are 1..MaxLoggedPopulation
MaxLoggedArchive == 2     \* archive lists are 1..MaxLoggedArchive
MaxEvaluated == 3   \* most individuals in one evaluation phase
MaxOptResult == 3   \* longest result of the optimiser
MaxOptGraph == 2    \* graphs of the result are 1..MaxOptGraph
MaxPipelineNodes == 3   \* most nodes of a pipeline whose root is looked up
MaxThreads == 3     \* threads that call the constructor
MaxCalls == 2       \* constructor calls of one thread
MaxCleared == 1     \* instances created before the last clear
MaxAdaptNodes == 2  \* nodes of a pipeline handed to the adapter
MaxHeap == 4        \* graph objects created by adapter calls
MaxRuleCalls == 2   \* calls of rules_by_task
MaxCallerRules == 2 \* rules a caller adds to a list it was given
MaxLbGenerations == 2  \* generations of the history that is queried
MaxLbIndividuals == 2  \* individuals of one generation
MaxLbGraph == 2        \* distinct descriptive ids
MaxLbFitness == 1      \* fitness values are 0..MaxLbFitness
MaxTopN == 2           \* largest top_n
MaxSelPop == 3      \* individuals handed to individuals_selection
MaxSelFit == 1      \* their fitness values are 0..MaxSelFit
MaxSelTarget == 2   \* largest requirements.pop_size

\* fedot/core/constants.py
MAXIMAL_ATTEMPTS_NUMBER == 1000

\* ------------------------------------------------------------------------
\* Helpers
\* ------------------------------------------------------------------------
Max(a, b) == IF a >= b THEN a ELSE b
Min(a, b) == IF a <= b THEN a ELSE b

SeqsUpTo(S, n) == UNION {[1..k -> S] : k \in 0..n}

Uids(s) == {s[k].uid : k \in 1..Len(s)}

Repeat(x, n) == [k \in 1..n |-> x]

NoDuplicates(s) == \A j, k \in 1..Len(s) : j # k => s[j] # s[k]

\* An individual as the selection operators see it: a uid and a fitness.
Individual == [uid : 1..MaxUid, fitness : 0..MaxFit]

\* ------------------------------------------------------------------------
\* tournament_selection (selection.py 64-78), random_selection (81-92)
\* ------------------------------------------------------------------------
\* math.ceil(len(individuals) * fraction) with the default fraction = 0.1
CeilTenth(n) == (n + 9) \div 10

\* group_size = max(ceil(len * fraction), 2 if len > 1 else 1)
GroupSize(inds) == Max(CeilTenth(Len(inds)), IF Len(inds) > 1 THEN 2 ELSE 1)

\* max(group, key=lambda ind: ind.fitness): the first entry of maximal fitness
BestOf(g) ==
    LET top == CHOOSE k \in 1..Len(g) :
                  /\ \A j \in 1..Len(g) : g[j].fitness <= g[k].fitness
                  /\ \A j \in 1..(k - 1) : g[j].fitness < g[k].fitness
    IN g[top]

\* a variant that appends the winner of every round
TournamentAppend_NoDedup(ch, best) == Append(ch, best)
\* if best.uid not in (c.uid for c in chosen): chosen.append(best)
TournamentAppend(ch, best) ==
    IF best.uid \notin Uids(ch) THEN Append(ch, best) ELSE ch

\* the loop condition of tournament_selection
TournamentLoopCond == Len(chosen) < pop_size /\ n_iter < pop_size * 10

\* the loop body of random_selection never assigns n_iter
RsNextIter(n) == n

\* the loop condition of random_selection, called with pop_size = group_size

RandomSelectionLoopCond ==
    Len(group) < GroupSize(individuals) /\ rs_n_iter < GroupSize(individuals) * 10

InitT ==
    /\ individuals \in SeqsUpTo(Individual, MaxPop)
    /\ pop_size \in 1..MaxTarget
    /\ chosen = <<>>
    /\ n_iter = 0
    /\ group = <<>>
    /\ rs_n_iter = 0
    /\ pc = "loop"

\* no selection call in progress
IdleT ==
    /\ individuals = <<>>
    /\ pop_size = 0
    /\ chosen = <<>>
    /\ n_iter = 0
    /\ group = <<>>
    /\ rs_n_iter = 0
    /\ pc = "idle"

\* while-test of tournament_selection holds: call random_selection
TournamentRound ==
    /\ pc = "loop"
    /\ TournamentLoopCond
    /\ group' = <<>>
    /\ rs_n_iter' = 0
    /\ pc' = "sample"
    /\ UNCHANGED <<individuals, pop_size, chosen, n_iter>>
    /\ UNCHANGED <<varsG, varsS, varsO, varsC, varsL, varsA, varsH, varsF, varsM, varsR, varsN, varsD, varsV, varsB, varsI>>

\* one iteration of the while loop of random_selection
RandomSelectionStep ==
    /\ pc = "sample"
    /\ RandomSelectionLoopCond
    /\ IF individuals = <<>>
       THEN /\ group' = <<>>
            /\ pc' = "best"
            /\ UNCHANGED rs_n_iter
       ELSE IF Len(individuals) <= 1
       THEN /\ group' = Repeat(individuals[1], GroupSize(individuals))
            /\ pc' = "best"
            /\ UNCHANGED rs_n_iter
       ELSE \E k \in 1..Len(individuals) :
              /\ group' = IF individuals[k].uid \notin Uids(group)
                          THEN Append(group, individuals[k])
                          ELSE group
              /\ rs_n_iter' = RsNextIter(rs_n_iter)
              /\ pc' = "sample"
    /\ UNCHANGED <<individuals, pop_size, chosen, n_iter>>
    /\ UNCHANGED <<varsG, varsS, varsO, varsC, varsL, varsA, varsH, varsF, varsM, varsR, varsN, varsD, varsV, varsB, varsI>>

\* while-test of random_selection fails: return chosen
RandomSelectionReturn ==
    /\ pc = "sample"
    /\ ~RandomSelectionLoopCond
    /\ pc' = "best"
    /\ UNCHANGED <<individuals, pop_size, chosen, n_iter, group, rs_n_iter>>
    /\ UNCHANGED <<varsG, varsS, varsO, varsC, varsL, varsA, varsH, varsF, varsM, varsR, varsN, varsD, varsV, varsB, varsI>>

\* best = max(group, ...); append unless its uid was chosen; n_iter += 1
\* (max of an empty group raises ValueError)
TournamentBest ==
    /\ pc = "best"
    /\ IF group = <<>>
       THEN /\ pc' = "raised"
            /\ UNCHANGED <<chosen, n_iter>>
       ELSE /\ chosen' = TournamentAppend(chosen, BestOf(group))
            /\ n_iter' = n_iter + 1
            /\ pc' = "loop"
    /\ UNCHANGED <<individuals, pop_size, group, rs_n_iter>>
    /\ UNCHANGED <<varsG, varsS, varsO, varsC, varsL, varsA, varsH, varsF, varsM, varsR, varsN, varsD, varsV, varsB, varsI>>

\* while-test of tournament_selection fails: return chosen
TournamentReturn ==
    /\ pc = "loop"
    /\ ~TournamentLoopCond
    /\ pc' = "done"
    /\ UNCHANGED <<individuals, pop_size, chosen, n_iter, group, rs_n_iter>>
    /\ UNCHANGED <<varsG, varsS, varsO, varsC, varsL, varsA, varsH, varsF, varsM, varsR, varsN, varsD, varsV, varsB, varsI>>

NextT ==
    \/ TournamentRound
    \/ RandomSelectionStep
    \/ RandomSelectionReturn
    \/ TournamentBest
    \/ TournamentReturn

\* ------------------------------------------------------------------------
\* InitialPopulationGenerator (initial_graphs_generator.py 13-75)
\* ------------------------------------------------------------------------
\* Graphs are compared structurally (Graph.__eq__); the verifier is the
\* callable generation_params.verifier, a predicate of the graph's structure.
Graph == [id : 1..MaxGraph, valid : BOOLEAN]

Verifier(g) == g.valid

InSeq(x, s) == \E k \in 1..Len(s) : s[k] = x

\* a variant that accepts every new graph without verifying it
Accepted_Unverified(pop, new_graph) == ~InSeq(new_graph, pop)
\* if new_graph not in population and self.generation_params.verifier(new_graph)
Accepted(pop, new_graph) == ~InSeq(new_graph, pop) /\ Verifier(new_graph)

\* self.initial_graphs[:pop_size]
Truncate(s, n) == SubSeq(s, 1, Min(Len(s), n))

NoneGraphs == [is_none |-> TRUE, list |-> <<>>]
ListOf(gs) == [is_none |-> FALSE, list |-> gs]

\* the empty list of seeds is taken for seeds
HasInitialGraphs_NotNone == ~initial_graphs.is_none

\* `if self.initial_graphs:` is false for None and for the empty list
HasInitialGraphs == ~initial_graphs.is_none /\ initial_graphs.list # <<>>

InitG ==
    /\ initial_graphs = NoneGraphs
    /\ supplied_graphs = <<>>
    /\ generation_function = "None"
    /\ req_pop_size \in 1..MaxGenPop
    /\ population = <<>>
    /\ g_n_iter = 0
    /\ g_pop_size = 0
    /\ g_result = <<>>
    /\ g_warned = FALSE
    /\ g_pc = "idle"

\* the generator is not part of the run
IdleG ==
    /\ initial_graphs = NoneGraphs
    /\ supplied_graphs = <<>>
    /\ generation_function = "None"
    /\ req_pop_size = 0
    /\ population = <<>>
    /\ g_n_iter = 0
    /\ g_pop_size = 0
    /\ g_result = <<>>
    /\ g_warned = FALSE
    /\ g_pc = "off"

\* with_initial_graphs: a single Graph is wrapped, an iterable is listed
WithInitialGraphs ==
    /\ g_pc = "idle"
    /\ \/ \E g \in Graph : initial_graphs' = ListOf(<<g>>)
       \/ \E gs \in SeqsUpTo(Graph, MaxSeeds) : initial_graphs' = ListOf(gs)
    /\ supplied_graphs' = initial_graphs'.list
    /\ UNCHANGED <<generation_function, req_pop_size, population, g_n_iter,
                   g_pop_size, g_result, g_warned, g_pc>>
    /\ UNCHANGED <<varsT, varsS, varsO, varsC, varsL, varsA, varsH, varsF, varsM, varsR, varsN, varsD, varsV, varsB, varsI>>

\* with_custom_generation_function
WithCustomGenerationFunction ==
    /\ g_pc = "idle"
    /\ generation_function' = "custom"
    /\ UNCHANGED <<supplied_graphs, initial_graphs, req_pop_size, population, g_n_iter,
                   g_pop_size, g_result, g_warned, g_pc>>
    /\ UNCHANGED <<varsT, varsS, varsO, varsC, varsL, varsA, varsH, varsF, varsM, varsR, varsN, varsD, varsV, varsB, varsI>>

\* the caller changes requirements.pop_size between calls
SetPopSize ==
    /\ g_pc = "idle"
    /\ \E n \in 1..MaxGenPop : req_pop_size' = n
    /\ UNCHANGED <<supplied_graphs, initial_graphs, generation_function, population, g_n_iter,
                   g_pop_size, g_result, g_warned, g_pc>>
    /\ UNCHANGED <<varsT, varsS, varsO, varsC, varsL, varsA, varsH, varsF, varsM, varsR, varsN, varsD, varsV, varsB, varsI>>

\* the truncated list is returned but not stored back
GeneratorCall_NoStore ==
    /\ g_pc = "idle"
    /\ g_pop_size' = req_pop_size
    /\ g_warned' = FALSE
    /\ IF HasInitialGraphs
       THEN /\ initial_graphs' = initial_graphs
            /\ g_result' = Truncate(initial_graphs.list, req_pop_size)
            /\ g_pc' = "returned"
            /\ UNCHANGED <<generation_function, population, g_n_iter>>
       ELSE /\ generation_function' = IF generation_function = "None"
                                      THEN "random"
                                      ELSE generation_function
            /\ population' = <<>>
            /\ g_n_iter' = 0
            /\ g_pc' = "loop"
            /\ UNCHANGED <<initial_graphs, g_result>>
    /\ UNCHANGED <<supplied_graphs, req_pop_size>>
    /\ UNCHANGED <<varsT, varsS, varsO, varsC, varsL, varsA, varsH, varsF, varsM, varsR, varsN, varsD, varsV, varsB, varsI>>

\* __call__ up to the while loop (lines 38-50)
GeneratorCall ==
    /\ g_pc = "idle"
    /\ g_pop_size' = req_pop_size
    /\ g_warned' = FALSE
    /\ IF HasInitialGraphs
       THEN /\ initial_graphs' =
                   IF Len(initial_graphs.list) > req_pop_size
                   THEN ListOf(Truncate(initial_graphs.list, req_pop_size))
                   ELSE initial_graphs
            /\ g_result' = initial_graphs'.list
            /\ g_pc' = "returned"
            /\ UNCHANGED <<generation_function, population, g_n_iter>>
       ELSE /\ generation_function' = IF generation_function = "None"
                                      THEN "random"
                                      ELSE generation_function
            /\ population' = <<>>
            /\ g_n_iter' = 0
            /\ g_pc' = "loop"
            /\ UNCHANGED <<initial_graphs, g_result>>
    /\ UNCHANGED <<supplied_graphs, req_pop_size>>
    /\ UNCHANGED <<varsT, varsS, varsO, varsC, varsL, varsA, varsH, varsF, varsM, varsR, varsN, varsD, varsV, varsB, varsI>>

\* the attempt ceiling is tested with one attempt too many
AttemptsExhausted_OneMore(n) ==
    n > MAXIMAL_ATTEMPTS_NUMBER

\* the test of the attempt counter after its increment (line 55)
AttemptsExhausted(n) ==
    n >= MAXIMAL_ATTEMPTS_NUMBER

\* one iteration of the while loop (lines 51-58); the generation function,
\* custom or random growth, may return any graph
GeneratorLoopStep ==
    /\ g_pc = "loop"
    /\ Len(population) < g_pop_size
    /\ \E new_graph \in Graph :
         population' = IF Accepted(population, new_graph)
                       THEN Append(population, new_graph)
                       ELSE population
    /\ g_n_iter' = g_n_iter + 1
    /\ IF AttemptsExhausted(g_n_iter')
       THEN /\ g_warned' = TRUE
            /\ g_result' = population'
            /\ g_pc' = "returned"
       ELSE UNCHANGED <<g_warned, g_result, g_pc>>
    /\ UNCHANGED <<supplied_graphs, initial_graphs, generation_function, req_pop_size, g_pop_size>>
    /\ UNCHANGED <<varsT, varsS, varsO, varsC, varsL, varsA, varsH, varsF, varsM, varsR, varsN, varsD, varsV, varsB, varsI>>

\* the while-test fails: return population (line 59)
GeneratorLoopExit ==
    /\ g_pc = "loop"
    /\ ~(Len(population) < g_pop_size)
    /\ g_result' = population
    /\ g_pc' = "returned"
    /\ UNCHANGED <<supplied_graphs, initial_graphs, generation_function, req_pop_size, population,
                   g_n_iter, g_pop_size, g_warned>>
    /\ UNCHANGED <<varsT, varsS, varsO, varsC, varsL, varsA, varsH, varsF, varsM, varsR, varsN, varsD, varsV, varsB, varsI>>

\* the caller takes the result and the locals of __call__ are gone; the
\* generator object can be configured and called again
GeneratorResume ==
    /\ g_pc = "returned"
    /\ g_pc' = "idle"
    /\ population' = <<>>
    /\ g_n_iter' = 0
    /\ g_pop_size' = 0
    /\ g_result' = <<>>
    /\ g_warned' = FALSE
    /\ UNCHANGED <<supplied_graphs, initial_graphs, generation_function, req_pop_size>>
    /\ UNCHANGED <<varsT, varsS, varsO, varsC, varsL, varsA, varsH, varsF, varsM, varsR, varsN, varsD, varsV, varsB, varsI>>

NextG ==
    \/ WithInitialGraphs
    \/ WithCustomGenerationFunction
    \/ SetPopSize
    \/ GeneratorCall
    \/ GeneratorLoopStep
    \/ GeneratorLoopExit
    \/ GeneratorResume

\* ------------------------------------------------------------------------
\* spea2_selection (selection.py 96-208) and its auxiliary functions
\* (213-248).  Python lists are functions on 0..n-1; the population is a
\* sequence read at 0-based positions through At.
\* ------------------------------------------------------------------------
At(s, i) == s[i + 1]

\* fitness.values of a two-objective fitness, larger is better
FitnessValues == [1..2 -> 0..MaxObjective]

\* float("inf")
Inf == 1000000

\* ind_i.fitness.dominates(ind_j.fitness): at least as good on every
\* objective and strictly better on one
Dominates(a, b) ==
    /\ \A k \in DOMAIN a : a[k] >= b[k]
    /\ \E k \in DOMAIN a : a[k] > b[k]

RECURSIVE SumOver(_, _)
SumOver(f, S) ==
    IF S = {} THEN 0
    ELSE LET x == CHOOSE y \in S : TRUE IN f[x] + SumOver(f, S \ {x})

\* dist += val * val over the objectives (lines 135-139, 157-161)
SquaredDistance(a, b) ==
    SumOver([k \in DOMAIN a |-> (a[k] - b[k]) * (a[k] - b[k])], DOMAIN a)

\* strength_fits[i]: how many individuals i dominates (lines 115-122)
StrengthFits(inds) ==
    [i \in 0..(Len(inds) - 1) |->
        Cardinality({j \in 0..(Len(inds) - 1) :
                        j # i /\ Dominates(At(inds, i), At(inds, j))})]

\* dominating_inds[i]: the individuals that dominate i (lines 115-122)
DominatingInds(inds, i) ==
    {j \in 0..(Len(inds) - 1) : j # i /\ Dominates(At(inds, j), At(inds, i))}

\* fits[i]: the summed strength of the dominators of i (lines 124-126)
RawFits(inds) ==
    LET strength_fits == StrengthFits(inds)
    IN [i \in 0..(Len(inds) - 1) |->
           SumOver(strength_fits, DominatingInds(inds, i))]

\* the ascending list of the members of a set of integers
RECURSIVE Ascending(_)
Ascending(S) ==
    IF S = {} THEN <<>>
    ELSE LET m == CHOOSE x \in S : \A y \in S : x <= y
         IN <<m>> \o Ascending(S \ {m})

\* chosen_indices = [i for i in range(inds_len) if fits[i] < 1] (line 129)
NonDominated(inds) ==
    LET fits == RawFits(inds)
    IN Ascending({i \in 0..(Len(inds) - 1) : fits[i] < 1})

\* ---- _partition, _randomized_partition, _randomized_select ----
Swap(arr, i, j) == [arr EXCEPT ![i] = arr[j], ![j] = arr[i]]

\* j -= 1; while array[j] > x: j -= 1
RECURSIVE ScanDown(_, _, _)
ScanDown(arr, j, x) == IF arr[j] > x THEN ScanDown(arr, j - 1, x) ELSE j

\* i += 1; while array[i] < x: i += 1
RECURSIVE ScanUp(_, _, _)
ScanUp(arr, i, x) == IF arr[i] < x THEN ScanUp(arr, i + 1, x) ELSE i

\* the `while True` loop of _partition (lines 238-248)
RECURSIVE PartitionLoop(_, _, _, _)
PartitionLoop(arr, i, j, x) ==
    LET j2 == ScanDown(arr, j - 1, x)
        i2 == ScanUp(arr, i + 1, x)
    IN IF i2 < j2
       THEN PartitionLoop(Swap(arr, i2, j2), i2, j2, x)
       ELSE [q |-> j2, array |-> arr]

\* _partition(array, begin, end)
Partition(arr, begin, end) == PartitionLoop(arr, begin - 1, end + 1, arr[begin])

\* _randomized_select(array, begin, end, i) with i = sqrt(n) - off: every
\* value it can return, over all pivots randint(begin, end) can draw.
\* The test i < k is sqrt(n) < k + off, i.e. n < (k + off)^2.
RECURSIVE RandomizedSelect(_, _, _, _, _)
RandomizedSelect(arr, begin, end, n, off) ==
    IF begin = end THEN {arr[begin]}
    ELSE UNION {
        LET p == Partition(Swap(arr, begin, r), begin, end)
            k == p.q - begin + 1
        IN IF n < (k + off) * (k + off)
           THEN RandomizedSelect(p.array, begin, p.q, n, off)
           ELSE RandomizedSelect(p.array, p.q + 1, end, n, off + k)
        : r \in begin..end }

\* the distances list built for individual i: only the entries j > i are
\* filled, the others keep 0.0 (lines 133-140)
DistancesFrom(inds, i) ==
    [j \in 0..(Len(inds) - 1) |->
        IF j > i THEN SquaredDistance(At(inds, i), At(inds, j)) ELSE 0]

\* the values kth_dist can take for individual i (line 141)
KthDistances(inds, i) ==
    RandomizedSelect(DistancesFrom(inds, i), 0, Len(inds) - 1, Len(inds), 0)

\* every assignment of a kth_dist to each individual that the pivots allow
KthChoices(inds) ==
    LET possible == [i \in 0..(Len(inds) - 1) |-> KthDistances(inds, i)]
    IN {kth \in [0..(Len(inds) - 1) -> UNION {possible[i] : i \in DOMAIN possible}] :
           \A i \in DOMAIN possible : kth[i] \in possible[i]}

\* equal ranking values are ordered by descending position
RankedBefore_TiesReversed(fits, kth, i, j) ==
    \/ fits[i] < fits[j]
    \/ fits[i] = fits[j] /\ kth[i] > kth[j]
    \/ fits[i] = fits[j] /\ kth[i] = kth[j] /\ i > j

\* (fits[i] + density, i) < (fits[j] + density, j) with density =
\* 1 / (kth_dist + 2) in (0, 1/2] and fits an integer: a larger kth_dist is
\* a smaller density
RankedBefore(fits, kth, i, j) ==
    \/ fits[i] < fits[j]
    \/ fits[i] = fits[j] /\ kth[i] > kth[j]
    \/ fits[i] = fits[j] /\ kth[i] = kth[j] /\ i < j

\* next_indices.sort() (lines 145-147)
RECURSIVE SortedNext(_, _, _)
SortedNext(S, fits, kth) ==
    IF S = {} THEN <<>>
    ELSE LET m == CHOOSE x \in S : \A y \in S \ {x} : RankedBefore(fits, kth, x, y)
         IN <<m>> \o SortedNext(S \ {m}, fits, kth)

SeqToSet(s) == {s[k] : k \in 1..Len(s)}

\* a variant that ranks every individual, the already chosen ones included
FillUp_NoFilter(inds, n, kth) ==
    LET ch == NonDominated(inds)
        next_indices == SortedNext(0..(Len(inds) - 1), RawFits(inds), kth)
    IN ch \o SubSeq(next_indices, 1, Min(Len(next_indices), n - Len(ch)))
\* the branch "the archive is too small" (lines 131-149)
FillUp(inds, n, kth) ==
    LET ch == NonDominated(inds)
        rest == (0..(Len(inds) - 1)) \ SeqToSet(ch)
        next_indices == SortedNext(rest, RawFits(inds), kth)
    IN ch \o SubSeq(next_indices, 1, Min(Len(next_indices), n - Len(ch)))

\* ---- the branch "the archive is too large" (lines 151-206) ----
\* distances[i][j] between the chosen individuals, -1 on the diagonal
TruncDistances(inds, ch) ==
    [i \in 0..(Len(ch) - 1) |->
        [j \in 0..(Len(ch) - 1) |->
            IF i = j THEN -1
            ELSE SquaredDistance(At(inds, At(ch, i)), At(inds, At(ch, j)))]]

\* the insertion sort of lines 167-173 orders the positions 0..m-1 of row i
\* by distance, equal distances staying in ascending position order
RECURSIVE SortedRow(_, _)
SortedRow(row, S) ==
    IF S = {} THEN <<>>
    ELSE LET m == CHOOSE x \in S : \A y \in S \ {x} :
                      row[x] < row[y] \/ (row[x] = row[y] /\ x < y)
         IN <<m>> \o SortedRow(row, S \ {m})

SortedIndices(d) ==
    [i \in DOMAIN d |->
        LET sq == SortedRow(d[i], DOMAIN d) IN [j \in DOMAIN d |-> At(sq, j)]]

\* the comparison of lines 181-189: row i is smaller than row min_pos at the
\* first position j in 1..size-1 where their sorted distances differ
RowLess(d, sorted, i, min_pos, size) ==
    \E j \in 1..(size - 1) :
        /\ d[i][sorted[i][j]] < d[min_pos][sorted[min_pos][j]]
        /\ \A h \in 1..(j - 1) : d[i][sorted[i][h]] = d[min_pos][sorted[min_pos][h]]

\* the search for the minimal distance (lines 179-189)
RECURSIVE FindMinPos(_, _, _, _, _)
FindMinPos(d, sorted, i, min_pos, size) ==
    IF i > Cardinality(DOMAIN d) - 1 THEN min_pos
    ELSE FindMinPos(d, sorted, i + 1,
                    IF RowLess(d, sorted, i, min_pos, size) THEN i ELSE min_pos,
                    size)

\* for j in range(1, size - 1): move min_pos one place towards the end
\* (lines 196-199)
RECURSIVE Bubble(_, _, _, _)
Bubble(row, j, size, min_pos) ==
    IF j > size - 2 THEN row
    ELSE Bubble(IF row[j] = min_pos THEN Swap(row, j, j + 1) ELSE row,
                j + 1, size, min_pos)

\* the distances of the removed position are left as they are
RemoveDistances_Kept(d, min_pos) == d

\* distances[i][min_pos] = distances[min_pos][i] = inf (lines 192-194)
RemoveDistances(d, min_pos) ==
    [i \in DOMAIN d |->
        [j \in DOMAIN d |-> IF i = min_pos \/ j = min_pos THEN Inf ELSE d[i][j]]]

\* the `while size > pop_size` loop (lines 177-203): the list to_remove
RECURSIVE TruncateLoop(_, _, _, _, _)
TruncateLoop(d, sorted, size, n, to_remove) ==
    IF size <= n THEN to_remove
    ELSE LET min_pos == FindMinPos(d, sorted, 1, 0, size)
         IN TruncateLoop(RemoveDistances(d, min_pos),
                         [i \in DOMAIN d |-> Bubble(sorted[i], 1, size, min_pos)],
                         size - 1, n, Append(to_remove, min_pos))

\* reversed(sorted(to_remove)), repeated entries kept
RECURSIVE Descending(_)
Descending(sq) ==
    IF sq = <<>> THEN <<>>
    ELSE LET k == CHOOSE x \in 1..Len(sq) : \A y \in 1..Len(sq) : sq[x] >= sq[y]
         IN <<sq[k]>> \o Descending(SubSeq(sq, 1, k - 1) \o SubSeq(sq, k + 1, Len(sq)))

\* del chosen_indices[index] for each index in turn (lines 205-206); a
\* position beyond the end of the list raises IndexError
RECURSIVE DeleteAll(_, _)
DeleteAll(ch, rem) ==
    IF rem = <<>> THEN [raised |-> FALSE, list |-> ch]
    ELSE IF Head(rem) >= Len(ch) THEN [raised |-> TRUE, list |-> ch]
    ELSE DeleteAll(SubSeq(ch, 1, Head(rem)) \o SubSeq(ch, Head(rem) + 2, Len(ch)),
                   Tail(rem))

ToRemove(inds, ch, n) ==
    LET distances == TruncDistances(inds, ch)
    IN TruncateLoop(distances, SortedIndices(distances), Len(ch), n, <<>>)

Truncated(inds, n) ==
    LET chosen_indices == NonDominated(inds)
    IN DeleteAll(chosen_indices, Descending(ToRemove(inds, chosen_indices, n)))

\* spea2_selection(individuals, pop_size): every list it can return
Spea2Selection(inds, n) ==
    LET chosen_indices == NonDominated(inds)
    IN IF Len(chosen_indices) < n
       THEN {[raised |-> FALSE, list |-> FillUp(inds, n, kth)] : kth \in KthChoices(inds)}
       ELSE IF Len(chosen_indices) > n
       THEN {Truncated(inds, n)}
       ELSE {[raised |-> FALSE, list |-> chosen_indices]}

InitS ==
    /\ s_individuals \in SeqsUpTo(FitnessValues, MaxSpeaPop) \ {<<>>}
    /\ s_pop_size \in 1..MaxSpeaTarget
    /\ s_result = [raised |-> FALSE, list |-> <<>>]
    /\ s_pc = "call"

\* populations whose objective values are spread over a wider range, so
\* that individuals of equal raw fitness differ in density
InitW ==
    /\ s_individuals \in SeqsUpTo([1..2 -> 0..MaxDensityObjective],
                                  MaxSpeaPop) \ {<<>>}
    /\ s_pop_size \in 1..MaxSpeaTarget
    /\ s_result = [raised |-> FALSE, list |-> <<>>]
    /\ s_pc = "call"

\* spea2_selection is not called
IdleS ==
    /\ s_individuals = <<>>
    /\ s_pop_size = 0
    /\ s_result = [raised |-> FALSE, list |-> <<>>]
    /\ s_pc = "off"

\* one call of spea2_selection; _randomized_select draws its pivots
Spea2Call ==
    /\ s_pc = "call"
    /\ s_result' \in Spea2Selection(s_individuals, s_pop_size)
    /\ s_pc' = "done"
    /\ UNCHANGED <<s_individuals, s_pop_size>>
    /\ UNCHANGED <<varsT, varsG, varsO, varsC, varsL, varsA, varsH, varsF, varsM, varsR, varsN, varsD, varsV, varsB, varsI>>

\* the caller hands the same population to another call
Spea2Again ==
    /\ s_pc = "done"
    /\ s_result' = [raised |-> FALSE, list |-> <<>>]
    /\ s_pc' = "call"
    /\ UNCHANGED <<s_individuals, s_pop_size>>
    /\ UNCHANGED <<varsT, varsG, varsO, varsC, varsL, varsA, varsH, varsF, varsM, varsR, varsN, varsD, varsV, varsB, varsI>>

NextS == Spea2Call \/ Spea2Again

\* ------------------------------------------------------------------------
\* Graph model and structural verifier (design document 3, 4.1, 4.2; the
\* rule list is verification.py common_rules)
\* ------------------------------------------------------------------------
\* A graph owns a set of nodes; an edge <<p, c>> says that p is a parent of
\* c (p is in c.nodes_from); models is the set of nodes whose content is a
\* model operation, the other nodes hold a data operation.
NodeIds == 1..MaxNodes

GraphOf(nodes, edges, models) ==
    [nodes |-> nodes, edges |-> edges, models |-> models]

ParentsOf(g, n) == {e[1] : e \in {d \in g.edges : d[2] = n}}

ChildrenOf(g, n) == {e[2] : e \in {d \in g.edges : d[1] = n}}

RECURSIVE ReachFrom(_, _, _)
ReachFrom(edges, frontier, seen) ==
    LET next == {e[2] : e \in {d \in edges : d[1] \in frontier}} \ seen
    IN  IF next = {} THEN seen ELSE ReachFrom(edges, next, seen \cup next)

\* the nodes reached from n along the edges, and the nodes that reach n
DescendantsOf(g, n) == ReachFrom(g.edges, {n}, {})

AncestorsOf(g, n) ==
    ReachFrom({<<e[2], e[1]>> : e \in g.edges}, {n}, {})

\* root lookup: the nodes with no children
RootNodes(g) == {n \in g.nodes : ChildrenOf(g, n) = {}}

has_one_root(g) == Cardinality(RootNodes(g)) = 1

has_no_cycle(g) == \A n \in g.nodes : n \notin DescendantsOf(g, n)

has_no_self_cycled_nodes(g) == \A n \in g.nodes : <<n, n>> \notin g.edges

has_no_isolated_nodes(g) ==
    Cardinality(g.nodes) > 1 =>
        \A n \in g.nodes : ParentsOf(g, n) # {} \/ ChildrenOf(g, n) # {}

has_primary_nodes(g) == \E n \in g.nodes : ParentsOf(g, n) = {}

has_final_operation_as_model(g) == RootNodes(g) \subseteq g.models

\* the verifier is the conjunction of its rules: the common rules that
\* read the structure of the graph and its final operation; the other
\* common rules (operation positions, data flow, data sources, decompose)
\* read the operation catalogue, which a node content of model or data
\* operation does not carry
Verify(g) ==
    /\ has_one_root(g)
    /\ has_no_cycle(g)
    /\ has_no_self_cycled_nodes(g)
    /\ has_no_isolated_nodes(g)
    /\ has_primary_nodes(g)
    /\ has_final_operation_as_model(g)

\* depth: the number of nodes on the longest path to a node; fuel ends
\* the walk on a graph that has a cycle
RECURSIVE Height(_, _, _)
Height(g, n, fuel) ==
    IF fuel = 0 THEN 0
    ELSE LET below == {Height(g, p, fuel - 1) : p \in ParentsOf(g, n)}
         IN  1 + (IF below = {} THEN 0
                  ELSE CHOOSE h \in below : \A k \in below : k <= h)

Depth(g) ==
    LET heights == {Height(g, n, Cardinality(g.nodes)) : n \in g.nodes}
    IN  IF heights = {} THEN 0
        ELSE CHOOSE h \in heights : \A k \in heights : k <= h

\* every graph over the nodes 1..k with k <= n, edges without self loops
AllGraphs(n) ==
    UNION {{GraphOf(1..k, es, ms) :
                es \in SUBSET {e \in (1..k) \X (1..k) : e[1] # e[2]},
                ms \in SUBSET (1..k)} : k \in 1..n}

\* the same graph with every node id shifted by off
Shifted(g, off) ==
    GraphOf({n + off : n \in g.nodes},
            {<<e[1] + off, e[2] + off>> : e \in g.edges},
            {n + off : n \in g.models})

\* ------------------------------------------------------------------------
\* Graph edit operations (design document 4.1)
\* ------------------------------------------------------------------------
\* the subgraph on a set of nodes
Restrict(g, keep) ==
    GraphOf(g.nodes \cap keep,
            {e \in g.edges : e[1] \in keep /\ e[2] \in keep},
            g.models \cap keep)

\* delete node: splice, the deleted node's children get its parents
DeleteNode(g, n) ==
    LET rest == Restrict(g, g.nodes \ {n})
    IN  GraphOf(rest.nodes,
                rest.edges \cup (ParentsOf(g, n) \X ChildrenOf(g, n)),
                rest.models)

\* the nodes beneath n that belong to nothing else: the ancestors of n
\* that reach the rest of the graph only through n
ExclusiveSubtree(g, n) ==
    LET anc == AncestorsOf(g, n) \ {n}
        others == g.nodes \ (anc \cup {n})
        bypass == {e \in g.edges : e[1] # n /\ e[2] # n}
    IN  {a \in anc : ReachFrom(bypass, {a}, {}) \cap others = {}}

\* delete subtree: the node and everything exclusively beneath it
DeleteSubtree(g, n) ==
    Restrict(g, g.nodes \ (ExclusiveSubtree(g, n) \cup {n}))

\* the subtree under n: n and all the nodes that feed it
Subtree(g, n) == Restrict(g, AncestorsOf(g, n) \cup {n})

\* graph equality is structural: the graphs agree up to the naming of
\* their nodes
SameStructure(g, h) ==
    \E f \in [g.nodes -> h.nodes] :
        /\ {f[n] : n \in g.nodes} = h.nodes
        /\ Cardinality(g.nodes) = Cardinality(h.nodes)
        /\ {<<f[e[1]], f[e[2]]>> : e \in g.edges} = h.edges
        /\ {f[n] : n \in g.models} = h.models

\* update subtree: swap n and everything beneath it for the graph sub,
\* whose root takes the place of n
UpdateSubtree(g, n, sub, subroot) ==
    LET rest == DeleteSubtree(g, n)
    IN  GraphOf(rest.nodes \cup sub.nodes,
                rest.edges \cup sub.edges
                    \cup ({subroot} \X (ChildrenOf(g, n) \cap rest.nodes)),
                rest.models \cup sub.models)

\* ------------------------------------------------------------------------
\* Mutation and crossover (design document 4.4)
\* ------------------------------------------------------------------------
MutationTypes ==
    {"single_add", "single_edge", "single_change", "single_drop",
     "growth", "reduce", "custom"}

\* the crossover of the design document and the type that does nothing
\* (CrossoverTypesEnum.none, test_gp_operators.py 171-176)
CrossoverTypes == {"subtree", "none"}

\* probability settings in percent, and the draws they are compared with
Probs == {0, 50, 100}

Draws == {0, 50, 99}

\* a draw equal to the probability passes the gate
GatePassed_Inclusive(draw, prob) == draw <= prob

GatePassed(draw, prob) == draw < prob

FreeIds(g) == NodeIds \ g.nodes

\* a node with the given content added to the nodes of g
WithNode(g, n, isModel) ==
    GraphOf(g.nodes \cup {n}, g.edges,
            IF isModel THEN g.models \cup {n} ELSE g.models)

\* single_add: a new node between a node and one of its parents, or as a
\* new parent of a node
AddBetween(g, n, isModel, e) ==
    LET w == WithNode(g, n, isModel)
    IN  [w EXCEPT !.edges = (w.edges \ {e})
                                \cup {<<e[1], n>>, <<n, e[2]>>}]

AddParent(g, n, isModel, c) ==
    LET w == WithNode(g, n, isModel)
    IN  [w EXCEPT !.edges = w.edges \cup {<<n, c>>}]

SingleAdd(g) ==
    {AddBetween(g, n, m, e) :
        n \in FreeIds(g), m \in BOOLEAN, e \in g.edges}
    \cup
    {AddParent(g, n, m, c) :
        n \in FreeIds(g), m \in BOOLEAN, c \in g.nodes}

\* single_edge: an edge between two existing nodes
SingleEdge(g) ==
    {[g EXCEPT !.edges = g.edges \cup {e}] :
        e \in {d \in g.nodes \X g.nodes :
                    d[1] # d[2] /\ d \notin g.edges}}

\* single_change: the content of one node swapped for another operation
SingleChange(g) ==
    {[g EXCEPT !.models = IF n \in g.models THEN g.models \ {n}
                          ELSE g.models \cup {n}] : n \in g.nodes}

\* single_drop: one node removed, its children spliced to its parents
SingleDrop(g) == {DeleteNode(g, n) : n \in g.nodes}

\* reduce: a subtree truncated to a single leaf
Reduce(g) ==
    {Restrict(g, g.nodes \ ExclusiveSubtree(g, n)) : n \in g.nodes}

\* the graphs randomized growth builds on the free ids: one node, or a
\* node with one parent
GrownTrees(ids) ==
    {[graph |-> WithNode(GraphOf({}, {}, {}), n, m), root |-> n] :
        n \in ids, m \in BOOLEAN}
    \cup
    {[graph |-> AddParent(WithNode(GraphOf({}, {}, {}), q[1], m1), q[2], m2, q[1]),
      root |-> q[1]] :
        q \in {r \in ids \X ids : r[1] # r[2]},
        m1 \in BOOLEAN, m2 \in BOOLEAN}

\* growth: a subtree regenerated by randomized growth
Growth(g) ==
    {UpdateSubtree(g, n, t.graph, t.root) :
        n \in g.nodes, t \in GrownTrees(FreeIds(g))}

\* custom (boosting-style): the graph wrapped in a fixed template, a new
\* final node fed by the former final nodes
Wrap(g, n, isModel) ==
    LET w == WithNode(g, n, isModel)
    IN  [w EXCEPT !.edges = w.edges \cup (RootNodes(g) \X {n})]

Custom(g) == {Wrap(g, n, m) : n \in FreeIds(g), m \in BOOLEAN}

\* the candidates one application of a mutation variant can build
Candidates(type, g) ==
    CASE type = "single_add" -> SingleAdd(g)
      [] type = "single_edge" -> SingleEdge(g)
      [] type = "single_change" -> SingleChange(g)
      [] type = "single_drop" -> SingleDrop(g)
      [] type = "growth" -> Growth(g)
      [] type = "reduce" -> Reduce(g)
      [] type = "custom" -> Custom(g)

\* the verifier is invoked after every mutation and crossover
Accepts_Unchecked(cand) == TRUE

Accepts(cand) == Verify(cand)

\* crossover: the two children of swapping the subtrees under n1 and n2
SubtreeCrossover(g1, n1, g2, n2) ==
    <<UpdateSubtree(g1, n1, Subtree(g2, n2), n2),
      UpdateSubtree(g2, n2, Subtree(g1, n1), n1)>>

\* depth compatibility of the chosen nodes: no child is deeper than the
\* configured maximum
Compatible(g1, n1, g2, n2) ==
    LET children == SubtreeCrossover(g1, n1, g2, n2)
    IN  /\ Depth(children[1]) <= MaxDepth
        /\ Depth(children[2]) <= MaxDepth

VerifiedGraphs(n) == {g \in AllGraphs(n) : Verify(g)}

InitO ==
    /\ op_kind \in {"mutation", "crossover"}
    /\ op_prob \in Probs
    /\ IF op_kind = "mutation"
       THEN /\ op_type \in MutationTypes
            /\ op_input \in {<<g>> : g \in AllGraphs(MaxOpNodes)}
       ELSE /\ op_type \in CrossoverTypes
            /\ op_input \in {<<g1, Shifted(g2, MaxOpNodes)>> :
                                g1 \in VerifiedGraphs(MaxOpNodes),
                                g2 \in VerifiedGraphs(MaxOpNodes)}
    /\ op_attempts = 0
    /\ op_result = <<>>
    /\ op_pc = "gate"

IdleO ==
    /\ op_kind = "none"
    /\ op_type = "none"
    /\ op_prob = 0
    /\ op_input = <<>>
    /\ op_attempts = 0
    /\ op_result = <<>>
    /\ op_pc = "idle"

\* the probability gate: a failed coin flip returns the input unchanged
OperatorGate ==
    /\ op_pc = "gate"
    /\ \E draw \in Draws :
        IF GatePassed(draw, op_prob)
        THEN /\ op_pc' = "attempt"
             /\ UNCHANGED op_result
        ELSE /\ op_result' = op_input
             /\ op_pc' = "returned"
    /\ UNCHANGED <<op_kind, op_type, op_prob, op_input, op_attempts>>
    /\ UNCHANGED <<varsT, varsG, varsS, varsC, varsL, varsA, varsH, varsF, varsM, varsR, varsN, varsD, varsV, varsB, varsI>>

\* one attempt of the mutation: a candidate the verifier accepts is
\* returned, a rejected one or a missing target uses up an attempt
MutationAttempt ==
    /\ op_pc = "attempt"
    /\ op_kind = "mutation"
    /\ op_attempts < MaxOpAttempts
    /\ LET cands == Candidates(op_type, op_input[1])
       IN  \/ /\ \E cand \in cands :
                    /\ Accepts(cand)
                    /\ op_result' = <<cand>>
              /\ op_pc' = "returned"
              /\ UNCHANGED op_attempts
           \/ /\ \/ cands = {}
                 \/ \E cand \in cands : ~Accepts(cand)
              /\ op_attempts' = op_attempts + 1
              /\ UNCHANGED <<op_result, op_pc>>
    /\ UNCHANGED <<op_kind, op_type, op_prob, op_input>>
    /\ UNCHANGED <<varsT, varsG, varsS, varsC, varsL, varsA, varsH, varsF, varsM, varsR, varsN, varsD, varsV, varsB, varsI>>

\* one attempt of the crossover: incompatible nodes use up an attempt,
\* compatible ones give two children, which are returned if the verifier
\* accepts both and replaced by the parents otherwise
CrossoverAttempt ==
    /\ op_pc = "attempt"
    /\ op_kind = "crossover"
    /\ op_type = "subtree"
    /\ op_attempts < MaxOpAttempts
    /\ \E n1 \in op_input[1].nodes, n2 \in op_input[2].nodes :
        IF ~Compatible(op_input[1], n1, op_input[2], n2)
        THEN /\ op_attempts' = op_attempts + 1
             /\ UNCHANGED <<op_result, op_pc>>
        ELSE LET children ==
                    SubtreeCrossover(op_input[1], n1, op_input[2], n2)
             IN  /\ op_result' =
                        IF Accepts(children[1]) /\ Accepts(children[2])
                        THEN children ELSE op_input
                 /\ op_pc' = "returned"
                 /\ UNCHANGED op_attempts
    /\ UNCHANGED <<op_kind, op_type, op_prob, op_input>>
    /\ UNCHANGED <<varsT, varsG, varsS, varsC, varsL, varsA, varsH, varsF, varsM, varsR, varsN, varsD, varsV, varsB, varsI>>

\* the crossover type that does nothing returns the parents
CrossoverNone ==
    /\ op_pc = "attempt"
    /\ op_kind = "crossover"
    /\ op_type = "none"
    /\ op_result' = op_input
    /\ op_pc' = "returned"
    /\ UNCHANGED <<op_kind, op_type, op_prob, op_input, op_attempts>>
    /\ UNCHANGED <<varsT, varsG, varsS, varsC, varsL, varsA, varsH, varsF, varsM, varsR, varsN, varsD, varsV, varsB, varsI>>

\* the attempt budget is used up and no individual is returned
OperatorExhausted_ReturnsNothing ==
    /\ op_pc = "attempt"
    /\ op_attempts = MaxOpAttempts
    /\ op_result' = <<>>
    /\ op_pc' = "returned"
    /\ UNCHANGED <<op_kind, op_type, op_prob, op_input, op_attempts>>
    /\ UNCHANGED <<varsT, varsG, varsS, varsC, varsL, varsA, varsH, varsF, varsM, varsR, varsN, varsD, varsV, varsB, varsI>>

\* the attempt budget is used up: the input is returned unchanged
OperatorExhausted ==
    /\ op_pc = "attempt"
    /\ op_attempts = MaxOpAttempts
    /\ op_result' = op_input
    /\ op_pc' = "returned"
    /\ UNCHANGED <<op_kind, op_type, op_prob, op_input, op_attempts>>
    /\ UNCHANGED <<varsT, varsG, varsS, varsC, varsL, varsA, varsH, varsF, varsM, varsR, varsN, varsD, varsV, varsB, varsI>>

NextO ==
    \/ OperatorGate
    \/ MutationAttempt
    \/ CrossoverAttempt
    \/ CrossoverNone
    \/ OperatorExhausted

\* ------------------------------------------------------------------------
\* Objective evaluator and evaluation cache (design document 4.5, 5)
\* ------------------------------------------------------------------------
Fingerprints == 1..MaxFingerprint

\* the external objective function: a fitness, or an evaluation failure
\* (error or time limit), which marks the fitness invalid
ExternalOutcomes(fp) ==
    {[valid |-> TRUE, value |-> fp], [valid |-> FALSE, value |-> 0]}

EmptyCache == [fp \in {} |-> [valid |-> FALSE, value |-> 0]]

\* the individuals of a batch, by position, that are handed to the worker
\* pool: one per fingerprint that the cache does not hold
ToEvaluate_NoLookup(batch, known) ==
    {i \in 1..Len(batch) : \A j \in 1..(i - 1) : batch[j] # batch[i]}

ToEvaluate(batch, known) ==
    {i \in 1..Len(batch) :
        /\ batch[i] \notin DOMAIN known
        /\ \A j \in 1..(i - 1) : batch[j] # batch[i]}

\* the cache grown by the results of a generation; an entry it already
\* holds is kept
Merged(known, computed) ==
    [fp \in DOMAIN known \cup DOMAIN computed |->
        IF fp \in DOMAIN known THEN known[fp] ELSE computed[fp]]

Counted(batch, fp) == Cardinality({i \in 1..Len(batch) : batch[i] = fp})

InitC ==
    /\ cache = EmptyCache
    /\ eval_calls = [fp \in Fingerprints |-> 0]
    /\ ec_requested = [fp \in Fingerprints |-> 0]
    /\ ec_batch = <<>>
    /\ ec_pending = {}
    /\ ec_computed = EmptyCache
    /\ ec_results = <<>>
    /\ ec_gen = 0
    /\ ec_pc = "ready"

IdleC ==
    /\ cache = EmptyCache
    /\ eval_calls = [fp \in Fingerprints |-> 0]
    /\ ec_requested = [fp \in Fingerprints |-> 0]
    /\ ec_batch = <<>>
    /\ ec_pending = {}
    /\ ec_computed = EmptyCache
    /\ ec_results = <<>>
    /\ ec_gen = 0
    /\ ec_pc = "idle"

\* the individuals of one generation are handed over for evaluation: the
\* ones the cache cannot answer are dispatched to the worker pool
EvaluationRequest ==
    /\ ec_pc = "ready"
    /\ ec_gen < MaxCacheGens
    /\ \E batch \in SeqsUpTo(Fingerprints, MaxBatch) \ {<<>>} :
        /\ ec_batch' = batch
        /\ ec_pending' = ToEvaluate(batch, cache)
        /\ ec_requested' =
                [fp \in Fingerprints |-> ec_requested[fp] + Counted(batch, fp)]
    /\ ec_computed' = EmptyCache
    /\ ec_results' = <<>>
    /\ ec_pc' = "evaluating"
    /\ UNCHANGED <<cache, eval_calls, ec_gen>>
    /\ UNCHANGED <<varsT, varsG, varsS, varsO, varsL, varsA, varsH, varsF, varsM, varsR, varsN, varsD, varsV, varsB, varsI>>

\* a worker invokes the external objective function for one dispatched
\* individual; the workers finish in any order
WorkerEvaluate ==
    /\ ec_pc = "evaluating"
    /\ \E i \in ec_pending :
        LET fp == ec_batch[i]
        IN  /\ eval_calls' = [eval_calls EXCEPT ![fp] = @ + 1]
            /\ \E outcome \in ExternalOutcomes(fp) :
                ec_computed' = Merged(ec_computed, [f \in {fp} |-> outcome])
            /\ ec_pending' = ec_pending \ {i}
    /\ UNCHANGED <<cache, ec_requested, ec_batch, ec_results, ec_gen, ec_pc>>
    /\ UNCHANGED <<varsT, varsG, varsS, varsO, varsL, varsA, varsH, varsF, varsM, varsR, varsN, varsD, varsV, varsB, varsI>>

\* the evaluation phase of the generation is complete: the control loop
\* stores the new results and answers every individual from the cache
EvaluationDone ==
    /\ ec_pc = "evaluating"
    /\ ec_pending = {}
    /\ cache' = Merged(cache, ec_computed)
    /\ ec_results' = [i \in 1..Len(ec_batch) |-> cache'[ec_batch[i]]]
    /\ ec_gen' = ec_gen + 1
    /\ ec_pc' = "ready"
    /\ UNCHANGED <<eval_calls, ec_requested, ec_batch, ec_pending,
                   ec_computed>>
    /\ UNCHANGED <<varsT, varsG, varsS, varsO, varsL, varsA, varsH, varsF, varsM, varsR, varsN, varsD, varsV, varsB, varsI>>

NextC ==
    \/ EvaluationRequest
    \/ WorkerEvaluate
    \/ EvaluationDone

\* ------------------------------------------------------------------------
\* Generation loop (design document 4.6)
\* ------------------------------------------------------------------------
\* a timeout of NoTimeout disables the time limit (timeout=-1 or None)
NoTimeout == 0 - 1

\* the three stop conditions
TimeLimitReached == timeout # NoTimeout /\ elapsed >= timeout

GenerationsReached_OffByOne == generation_num > num_of_generations

GenerationsReached == generation_num >= num_of_generations

StagnationReached ==
    /\ stopping_after_n_generation > 0
    /\ stagnation_duration >= stopping_after_n_generation

StopCondition_NoStagnation == TimeLimitReached \/ GenerationsReached

StopCondition == TimeLimitReached \/ GenerationsReached \/ StagnationReached

\* the history grown by the entry of one generation
Recorded_SkipInitial(h, gen, best) ==
    IF gen = 0 THEN h ELSE Append(h, [generation |-> gen, best |-> best])

Recorded(h, gen, best) == Append(h, [generation |-> gen, best |-> best])

\* wall-clock time passes while a population is evaluated
Later(t) == {Min(t + d, MaxClock) : d \in 0..1}

\* the depth bound the run starts with: start_depth under automatic depth
\* configuration, the configured max_depth otherwise
StartingDepth(auto, start, ceiling) == IF auto THEN start ELSE ceiling

\* stagnation lets the population grow beyond the ceiling
GrownPopSizes_PastCeiling(scheme, size, ceiling) ==
    IF scheme = "parameter_free" THEN size..(size + 1) ELSE {size}

\* parameter-free growth: the population sizes the next generation may
\* have after a stagnating one, up to the configured ceiling
GrownPopSizes(scheme, size, ceiling) ==
    IF scheme = "parameter_free" THEN size..ceiling ELSE {size}

\* the depth bounds the next generation may have after a stagnating one:
\* one more level, up to the configured max_depth
GrownDepths(auto, depth, ceiling) ==
    IF auto THEN depth..Min(depth + 1, ceiling) ELSE {depth}

InitL ==
    /\ opt_state = "Initializing"
    /\ timeout \in {NoTimeout} \cup (0..MaxClock)
    /\ num_of_generations \in 1..MaxGenerations
    /\ stopping_after_n_generation \in 0..MaxWindow
    /\ generation_num = 0
    /\ elapsed = 0
    /\ best_fitness = 0
    /\ stagnation_duration = 0
    /\ history = <<>>
    /\ genetic_scheme_type \in {"steady_state", "parameter_free"}
    /\ with_auto_depth_configuration \in BOOLEAN
    /\ max_pop_size \in 1..MaxPopCeiling
    /\ cur_pop_size \in 1..max_pop_size
    /\ max_depth \in 1..MaxDepthCeiling
    /\ start_depth \in 1..max_depth
    /\ cur_max_depth = StartingDepth(with_auto_depth_configuration,
                                     start_depth, max_depth)

IdleL ==
    /\ opt_state = "Idle"
    /\ timeout = NoTimeout
    /\ num_of_generations = 1
    /\ stopping_after_n_generation = 0
    /\ generation_num = 0
    /\ elapsed = 0
    /\ best_fitness = 0
    /\ stagnation_duration = 0
    /\ history = <<>>
    /\ genetic_scheme_type = "steady_state"
    /\ with_auto_depth_configuration = FALSE
    /\ max_pop_size = 1
    /\ cur_pop_size = 1
    /\ max_depth = 1
    /\ start_depth = 1
    /\ cur_max_depth = 1

\* Initializing -> Evaluating(gen=0): the initial population is generated
Initialize ==
    /\ opt_state = "Initializing"
    /\ opt_state' = "Evaluating"
    /\ UNCHANGED <<timeout, num_of_generations, stopping_after_n_generation,
                   generation_num, elapsed, best_fitness,
                   stagnation_duration, history>>
    /\ UNCHANGED varsP
    /\ UNCHANGED <<varsT, varsG, varsS, varsO, varsC, varsA, varsH, varsF, varsM, varsR, varsN, varsD, varsV, varsB, varsI>>

\* Evaluating(gen=0): the initial population is evaluated and recorded,
\* which brings the loop to its first generation boundary
EvaluateInitial ==
    /\ opt_state = "Evaluating"
    /\ history = <<>>
    /\ elapsed' \in Later(elapsed)
    /\ best_fitness' \in 0..MaxBest
    /\ history' = Recorded(history, 0, best_fitness')
    /\ opt_state' = "Boundary"
    /\ UNCHANGED <<timeout, num_of_generations, stopping_after_n_generation,
                   generation_num, stagnation_duration>>
    /\ UNCHANGED varsP
    /\ UNCHANGED <<varsT, varsG, varsS, varsO, varsC, varsA, varsH, varsF, varsM, varsR, varsN, varsD, varsV, varsB, varsI>>

\* generation boundary, a stop condition holds: the loop is Stopped
Stop ==
    /\ opt_state = "Boundary"
    /\ StopCondition
    /\ opt_state' = "Stopped"
    /\ UNCHANGED <<timeout, num_of_generations, stopping_after_n_generation,
                   generation_num, elapsed, best_fitness,
                   stagnation_duration, history>>
    /\ UNCHANGED varsP
    /\ UNCHANGED <<varsT, varsG, varsS, varsO, varsC, varsA, varsH, varsF, varsM, varsR, varsN, varsD, varsV, varsB, varsI>>

\* generation boundary, no stop condition holds: the next generation; after
\* a generation without improvement the parameter-free scheme may raise the
\* population size and automatic depth configuration the depth bound
Continue ==
    /\ opt_state = "Boundary"
    /\ ~StopCondition
    /\ opt_state' = "Selecting"
    /\ IF stagnation_duration > 0
       THEN /\ cur_pop_size' \in GrownPopSizes(genetic_scheme_type,
                                               cur_pop_size, max_pop_size)
            /\ cur_max_depth' \in GrownDepths(with_auto_depth_configuration,
                                              cur_max_depth, max_depth)
       ELSE UNCHANGED <<cur_pop_size, cur_max_depth>>
    /\ UNCHANGED <<genetic_scheme_type, with_auto_depth_configuration,
                   max_pop_size, start_depth, max_depth>>
    /\ UNCHANGED <<timeout, num_of_generations, stopping_after_n_generation,
                   generation_num, elapsed, best_fitness,
                   stagnation_duration, history>>
    /\ UNCHANGED <<varsT, varsG, varsS, varsO, varsC, varsA, varsH, varsF, varsM, varsR, varsN, varsD, varsV, varsB, varsI>>

Select ==
    /\ opt_state = "Selecting"
    /\ opt_state' = "Varying"
    /\ UNCHANGED <<timeout, num_of_generations, stopping_after_n_generation,
                   generation_num, elapsed, best_fitness,
                   stagnation_duration, history>>
    /\ UNCHANGED varsP
    /\ UNCHANGED <<varsT, varsG, varsS, varsO, varsC, varsA, varsH, varsF, varsM, varsR, varsN, varsD, varsV, varsB, varsI>>

Vary ==
    /\ opt_state = "Varying"
    /\ opt_state' = "Evaluating"
    /\ UNCHANGED <<timeout, num_of_generations, stopping_after_n_generation,
                   generation_num, elapsed, best_fitness,
                   stagnation_duration, history>>
    /\ UNCHANGED varsP
    /\ UNCHANGED <<varsT, varsG, varsS, varsO, varsC, varsA, varsH, varsF, varsM, varsR, varsN, varsD, varsV, varsB, varsI>>

\* Evaluating: all individuals of the generation are evaluated
Evaluate ==
    /\ opt_state = "Evaluating"
    /\ history # <<>>
    /\ elapsed' \in Later(elapsed)
    /\ opt_state' = "Archiving"
    /\ UNCHANGED <<timeout, num_of_generations, stopping_after_n_generation,
                   generation_num, best_fitness, stagnation_duration, history>>
    /\ UNCHANGED varsP
    /\ UNCHANGED <<varsT, varsG, varsS, varsO, varsC, varsA, varsH, varsF, varsM, varsR, varsN, varsD, varsV, varsB, varsI>>

\* Archiving: the archive takes the new individuals, the generation is
\* counted and recorded; the best archive fitness stays or improves
Archive ==
    /\ opt_state = "Archiving"
    /\ \E best \in best_fitness..MaxBest :
        /\ best_fitness' = best
        /\ stagnation_duration' =
                IF best = best_fitness THEN stagnation_duration + 1 ELSE 0
        /\ history' = Recorded(history, generation_num + 1, best)
    /\ generation_num' = generation_num + 1
    /\ opt_state' = "Boundary"
    /\ UNCHANGED <<timeout, num_of_generations, stopping_after_n_generation,
                   elapsed>>
    /\ UNCHANGED varsP
    /\ UNCHANGED <<varsT, varsG, varsS, varsO, varsC, varsA, varsH, varsF, varsM, varsR, varsN, varsD, varsV, varsB, varsI>>

NextL ==
    \/ Initialize
    \/ EvaluateInitial
    \/ Stop
    \/ Continue
    \/ Select
    \/ Vary
    \/ Evaluate
    \/ Archive

\* ------------------------------------------------------------------------
\* Archive (design document 3, 4.6): the bounded set of non-dominated
\* individuals; an individual is given by its fitness values
\* ------------------------------------------------------------------------
\* the members of a set that no other member dominates
ParetoFront_KeepAll(inds) == inds

ParetoFront(inds) ==
    {a \in inds : \A b \in inds : ~Dominates(b, a)}

\* the archives an update call can leave: the non-dominated individuals
\* of the old archive and the new ones, cut to the maximum size
Updated(old, new, size) ==
    LET front == ParetoFront(old \cup new)
    IN  IF Cardinality(front) <= size THEN {front}
        ELSE {kept \in SUBSET front : Cardinality(kept) = size}

InitA ==
    /\ archive = {}
    /\ archive_size \in 1..MaxArchive
    /\ a_updates = 0

IdleA ==
    /\ archive = {}
    /\ archive_size = 0
    /\ a_updates = 0

\* one update call with the evaluated individuals of a generation
ArchiveUpdate ==
    /\ a_updates < MaxArchiveUpdates
    /\ \E batch \in SeqsUpTo([1..2 -> 0..MaxArchiveObjective],
                            MaxArchiveBatch) \ {<<>>} :
        archive' \in Updated(archive, SeqToSet(batch), archive_size)
    /\ a_updates' = a_updates + 1
    /\ UNCHANGED archive_size
    /\ UNCHANGED <<varsT, varsG, varsS, varsO, varsC, varsL, varsH, varsF, varsM, varsR, varsN, varsD, varsV, varsB, varsI>>

\* ------------------------------------------------------------------------
\* OptHistory and log_to_history (opt_history.py 25-44, 281-291).
\* A population or an archive is a list object; the history keeps the
\* objects it was handed, so each is modelled by its identity.
\* ------------------------------------------------------------------------

\* add_to_history (lines 40-41)
add_to_history(list, inds) == Append(list, inds)

\* the archive is put in front of the earlier entries
add_to_archive_history_Prepend(list, inds) == <<inds>> \o list

\* add_to_archive_history (lines 43-44)
add_to_archive_history(list, inds) == Append(list, inds)

\* OptHistory.__init__ (lines 30-35)
InitH ==
    /\ history_individuals = <<>>
    /\ archive_history = <<>>
    /\ save_folder \in BOOLEAN
    /\ saved_generation = 0 - 1
    /\ log_population \in 1..MaxLoggedPopulation
    /\ log_generations \in 1..MaxLoggedArchive
    /\ log_calls = 0

IdleH ==
    /\ history_individuals = <<>>
    /\ archive_history = <<>>
    /\ save_folder = FALSE
    /\ saved_generation = 0 - 1
    /\ log_population = 0
    /\ log_generations = 0
    /\ log_calls = 0

\* log_to_history (lines 281-291); save_current_results (lines 79-96) reads
\* the last entry and logs any exception instead of raising it
LogToHistory ==
    /\ log_calls < MaxLogged
    /\ history_individuals' = add_to_history(history_individuals,
                                             log_population)
    /\ archive_history' = add_to_archive_history(archive_history,
                                                 log_generations)
    /\ IF save_folder
       THEN \E exported \in BOOLEAN :
              saved_generation' = IF exported
                                  THEN Len(history_individuals') - 1
                                  ELSE saved_generation
       ELSE UNCHANGED saved_generation
    /\ log_calls' = log_calls + 1
    /\ UNCHANGED <<save_folder, log_population, log_generations>>
    /\ UNCHANGED <<varsT, varsG, varsS, varsO, varsC, varsL, varsA, varsF, varsM, varsR, varsN, varsD, varsV, varsB, varsI>>

\* the optimiser moves on to its next population and archive
NextPopulation ==
    /\ log_calls < MaxLogged
    /\ \E p \in 1..MaxLoggedPopulation, a \in 1..MaxLoggedArchive :
         /\ <<p, a>> # <<log_population, log_generations>>
         /\ log_population' = p
         /\ log_generations' = a
    /\ UNCHANGED <<history_individuals, archive_history, save_folder,
                   saved_generation, log_calls>>
    /\ UNCHANGED <<varsT, varsG, varsS, varsO, varsC, varsL, varsA, varsF, varsM, varsR, varsN, varsD, varsV, varsB, varsI>>

NextH ==
    \/ LogToHistory
    \/ NextPopulation

\* ------------------------------------------------------------------------
\* Evaluation of a generation with a time limit per individual:
\* Pipeline._fit_with_time_limit and Pipeline._fit (pipeline.py 74-126);
\* the handling of the outcome by the evaluator is design document 4.5, 4.6.
\* func_timeout runs _fit in a thread of the same process and raises
\* FunctionTimedOut when the thread is still alive at the deadline, wherever
\* the thread is.
\* ------------------------------------------------------------------------
Evaluated == 1..ev_size

\* the individuals with a valid fitness, in the order of the population
ValidOnes(fitness, n) ==
    LET RECURSIVE Upto(_)
        Upto(k) == IF k = 0 THEN <<>>
                   ELSE IF fitness[k] = "valid" THEN Append(Upto(k - 1), k)
                   ELSE Upto(k - 1)
    IN  Upto(n)

\* the fitness the evaluator gives for the way the fit ended
FitnessOf(outcome) == IF outcome = "returned" THEN "valid" ELSE "invalid"

InitF ==
    /\ ev_size \in 1..MaxEvaluated
    /\ ev_fitness = [i \in 1..ev_size |-> "unset"]
    /\ ev_current = 0
    /\ ev_evaluated = <<>>
    /\ ev_pc = "evaluating"
    /\ computation_time = [i \in 1..ev_size |-> FALSE]
    /\ fitted_operation = [i \in 1..ev_size |-> FALSE]
    /\ process_state_dict = FALSE
    /\ fit_main = "none"
    /\ fit_thread = "none"

IdleF ==
    /\ ev_size = 0
    /\ ev_fitness = <<>>
    /\ ev_current = 0
    /\ ev_evaluated = <<>>
    /\ ev_pc = "off"
    /\ computation_time = <<>>
    /\ fitted_operation = <<>>
    /\ process_state_dict = FALSE
    /\ fit_main = "none"
    /\ fit_thread = "none"

\* the evaluator takes an individual without a fitness and fits its
\* pipeline: _fit_with_time_limit up to the join on the thread (lines 84-91)
FitStart ==
    /\ ev_pc = "evaluating"
    /\ ev_current = 0
    /\ \E i \in Evaluated :
        /\ ev_fitness[i] = "unset"
        /\ ev_current' = i
    /\ process_state_dict' = FALSE
    /\ fit_main' = "waiting"
    /\ fit_thread' = "root_fit"
    /\ UNCHANGED <<ev_size, ev_fitness, ev_evaluated, ev_pc,
                   computation_time, fitted_operation>>
    /\ UNCHANGED <<varsT, varsG, varsS, varsO, varsC, varsL, varsA, varsH, varsM, varsR, varsN, varsD, varsV, varsB, varsI>>

\* _fit, line 116: the root node is fitted, or the fit raises
FitRoot ==
    /\ fit_main = "waiting"
    /\ fit_thread = "root_fit"
    /\ \/ /\ fit_thread' = "store_time"
          /\ UNCHANGED fit_main
       \/ /\ fit_thread' = "failed"
          /\ fit_main' = "raised_error"
    /\ UNCHANGED <<ev_size, ev_fitness, ev_current, ev_evaluated, ev_pc,
                   computation_time, fitted_operation, process_state_dict>>
    /\ UNCHANGED <<varsT, varsG, varsS, varsO, varsC, varsL, varsA, varsH, varsM, varsR, varsN, varsD, varsV, varsB, varsI>>

\* _fit, lines 117-118: the pipeline's computation_time is stored; the
\* pipelines of a population were not fitted before, so the update flag of
\* lines 114-115 is set (computation_time is None)
FitStoreTime ==
    /\ fit_main = "waiting"
    /\ fit_thread = "store_time"
    /\ computation_time' = [computation_time EXCEPT ![ev_current] = TRUE]
    /\ fit_thread' = "fill"
    /\ UNCHANGED <<ev_size, ev_fitness, ev_current, ev_evaluated, ev_pc,
                   fitted_operation, process_state_dict, fit_main>>
    /\ UNCHANGED <<varsT, varsG, varsS, varsO, varsC, varsL, varsA, varsH, varsM, varsR, varsN, varsD, varsV, varsB, varsI>>

\* _fit, lines 122-126: the results are put into the dictionary and the
\* list of the caller, and the thread ends
FitFill ==
    /\ fit_main = "waiting"
    /\ fit_thread = "fill"
    /\ process_state_dict' = TRUE
    /\ fit_thread' = "finished"
    /\ UNCHANGED <<ev_size, ev_fitness, ev_current, ev_evaluated, ev_pc,
                   computation_time, fitted_operation, fit_main>>
    /\ UNCHANGED <<varsT, varsG, varsS, varsO, varsC, varsL, varsA, varsH, varsM, varsR, varsN, varsD, varsV, varsB, varsI>>

\* the deadline passes while the thread is alive: FunctionTimedOut is
\* caught and TimeoutError raised (lines 92-93); lines 95-98 are skipped
FitTimeout ==
    /\ fit_main = "waiting"
    /\ fit_thread \in {"root_fit", "store_time", "fill"}
    /\ fit_main' = "raised_timeout"
    /\ fit_thread' = "stopped"
    /\ UNCHANGED <<ev_size, ev_fitness, ev_current, ev_evaluated, ev_pc,
                   computation_time, fitted_operation, process_state_dict>>
    /\ UNCHANGED <<varsT, varsG, varsS, varsO, varsC, varsL, varsA, varsH, varsM, varsR, varsN, varsD, varsV, varsB, varsI>>

\* the thread ended in time: the results are taken from the dictionary and
\* the list into the pipeline (lines 95-98)
FitAssign ==
    /\ fit_main = "waiting"
    /\ fit_thread = "finished"
    /\ computation_time' = [computation_time EXCEPT
                                ![ev_current] = process_state_dict]
    /\ fitted_operation' = [fitted_operation EXCEPT ![ev_current] = TRUE]
    /\ fit_main' = "returned"
    /\ UNCHANGED <<ev_size, ev_fitness, ev_current, ev_evaluated, ev_pc,
                   process_state_dict, fit_thread>>
    /\ UNCHANGED <<varsT, varsG, varsS, varsO, varsC, varsL, varsA, varsH, varsM, varsR, varsN, varsD, varsV, varsB, varsI>>

\* the evaluator takes the outcome: an exception or a timeout marks the
\* fitness of this individual invalid, and the phase goes on
EvaluatorCollect ==
    /\ ev_pc = "evaluating"
    /\ fit_main \in {"returned", "raised_timeout", "raised_error"}
    /\ ev_fitness' = [ev_fitness EXCEPT ![ev_current] = FitnessOf(fit_main)]
    /\ ev_current' = 0
    /\ fit_main' = "none"
    /\ fit_thread' = "none"
    /\ process_state_dict' = FALSE
    /\ UNCHANGED <<ev_size, ev_evaluated, ev_pc, computation_time,
                   fitted_operation>>
    /\ UNCHANGED <<varsT, varsG, varsS, varsO, varsC, varsL, varsA, varsH, varsM, varsR, varsN, varsD, varsV, varsB, varsI>>

\* every individual has its outcome: the ones with a valid fitness are
\* handed on to selection
EvaluationPhaseDone ==
    /\ ev_pc = "evaluating"
    /\ ev_current = 0
    /\ \A i \in Evaluated : ev_fitness[i] # "unset"
    /\ ev_evaluated' = ValidOnes(ev_fitness, ev_size)
    /\ ev_pc' = "done"
    /\ UNCHANGED <<ev_size, ev_fitness, ev_current, computation_time,
                   fitted_operation, process_state_dict, fit_main,
                   fit_thread>>
    /\ UNCHANGED <<varsT, varsG, varsS, varsO, varsC, varsL, varsA, varsH, varsM, varsR, varsN, varsD, varsV, varsB, varsI>>

NextF ==
    \/ FitStart
    \/ FitRoot
    \/ FitStoreTime
    \/ FitFill
    \/ FitTimeout
    \/ FitAssign
    \/ EvaluatorCollect
    \/ EvaluationPhaseDone

\* ------------------------------------------------------------------------
\* GPComposer.compose_pipeline (gp_composer.py 40-76) and the adapter's
\* restore (adapters.py 29-32, 126-137)
\* ------------------------------------------------------------------------

\* what the optimiser may return: optimisation graphs, or graphs that are
\* pipelines already
OptGraphs == [class : {"OptGraph", "Pipeline"}, id : 1..MaxOptGraph]

\* BaseOptimizationAdapter.restore: a graph of the base class is returned
\* as it is, any other is converted into a pipeline of the same structure
restore(opt_graph) ==
    IF opt_graph.class = "Pipeline" THEN opt_graph
    ELSE [class |-> "Pipeline", id |-> opt_graph.id]

\* best_pipelines (line 74)
BestPipelines(result) == [k \in 1..Len(result) |-> restore(result[k])]

\* the single objective takes the last pipeline
ChosenBestPipeline_Last(multi_objective, best_pipelines) ==
    IF multi_objective THEN best_pipelines
    ELSE best_pipelines[Len(best_pipelines)]

\* chosen_best_pipeline (line 75)
ChosenBestPipeline(multi_objective, best_pipelines) ==
    IF multi_objective THEN best_pipelines ELSE best_pipelines[1]

\* GPComposer.__init__ (lines 27-39)
InitM ==
    /\ opt_result = <<>>
    /\ is_multi_objective \in BOOLEAN
    /\ best_model = <<>>
    /\ best_models = <<>>
    /\ cp_pc = "optimising"

IdleM ==
    /\ opt_result = <<>>
    /\ is_multi_objective = FALSE
    /\ best_model = <<>>
    /\ best_models = <<>>
    /\ cp_pc = "off"

\* optimizer.optimise returns (lines 62-63)
OptimiserReturns ==
    /\ cp_pc = "optimising"
    /\ opt_result' \in SeqsUpTo(OptGraphs, MaxOptResult)
    /\ cp_pc' = "converting"
    /\ UNCHANGED <<is_multi_objective, best_model, best_models>>
    /\ UNCHANGED <<varsT, varsG, varsS, varsO, varsC, varsL, varsA, varsH,
                   varsF, varsR, varsN, varsD, varsV, varsB, varsI>>

\* lines 65-67 with _convert_opt_results_to_pipeline (lines 71-76):
\* best_pipelines[0] raises IndexError on an empty result
ConvertOptResults ==
    /\ cp_pc = "converting"
    /\ IF ~is_multi_objective /\ opt_result = <<>>
       THEN /\ cp_pc' = "raised"
            /\ UNCHANGED <<best_model, best_models>>
       ELSE /\ best_model' = ChosenBestPipeline(is_multi_objective,
                                                BestPipelines(opt_result))
            /\ best_models' = BestPipelines(opt_result)
            /\ cp_pc' = "returned"
    /\ UNCHANGED <<opt_result, is_multi_objective>>
    /\ UNCHANGED <<varsT, varsG, varsS, varsO, varsC, varsL, varsA, varsH,
                   varsF, varsR, varsN, varsD, varsV, varsB, varsI>>

NextM ==
    \/ OptimiserReturns
    \/ ConvertOptResults

\* ------------------------------------------------------------------------
\* Pipeline.root_node (pipeline.py 294-302)
\* ------------------------------------------------------------------------

\* the pipelines looked at: every graph on up to MaxPipelineNodes nodes,
\* the one without nodes included; the lookup does not read the content of
\* the nodes
Pipelines ==
    UNION {{GraphOf(1..k, es, {}) :
                es \in SUBSET {e \in (1..k) \X (1..k) : e[1] # e[2]}} :
           k \in 0..MaxPipelineNodes}

\* the first of several roots is returned
root_node_First(g) ==
    IF g.nodes = {} THEN [kind |-> "None"]
    ELSE LET root == RootNodes(g)
         IN  IF root = {} THEN [kind |-> "IndexError"]
             ELSE [kind |-> "node",
                   node |-> CHOOSE n \in root : \A m \in root : n <= m]

\* the property root_node: None, the node without children, ValueError for
\* more than one such node; root[0] of an empty list raises IndexError
root_node(g) ==
    IF g.nodes = {} THEN [kind |-> "None"]
    ELSE LET root == RootNodes(g)
         IN  IF Cardinality(root) > 1 THEN [kind |-> "ValueError"]
             ELSE IF root = {} THEN [kind |-> "IndexError"]
             ELSE [kind |-> "node", node |-> CHOOSE n \in root : TRUE]

InitR ==
    /\ rn_pipeline \in Pipelines
    /\ rn_result = [kind |-> "unset"]
    /\ rn_pc = "ready"

IdleR ==
    /\ rn_pipeline = GraphOf({}, {}, {})
    /\ rn_result = [kind |-> "unset"]
    /\ rn_pc = "off"

\* pipeline.root_node is read
RootNodeLookup ==
    /\ rn_pc = "ready"
    /\ rn_result' = root_node(rn_pipeline)
    /\ rn_pc' = "done"
    /\ UNCHANGED rn_pipeline
    /\ UNCHANGED <<varsT, varsG, varsS, varsO, varsC, varsL, varsA, varsH,
                   varsF, varsM, varsN, varsD, varsV, varsB, varsI>>

\* ------------------------------------------------------------------------
\* SingletonMeta.__call__ (log.py 12-29), called for one class from several
\* threads; each instance the constructor creates is a new object, named by
\* the number of the constructor run that made it
\* ------------------------------------------------------------------------
Threads == 1..MaxThreads

\* the lock is never waited for
CanAcquire_NoLock(owner, t) == TRUE

\* `with cls._lock`: the lock is free (an RLock lets its owner in again,
\* which a thread at the start of a call never is)
CanAcquire(owner, t) == owner = 0

InitN ==
    /\ instances = 0
    /\ lock = 0
    /\ init_runs = 0
    /\ sm_pc = [t \in Threads |-> "idle"]
    /\ sm_instance = [t \in Threads |-> 0]
    /\ sm_calls = [t \in Threads |-> 0]
    /\ sm_returned = {}

IdleN ==
    /\ instances = 0
    /\ lock = 0
    /\ init_runs = 0
    /\ sm_pc = <<>>
    /\ sm_instance = <<>>
    /\ sm_calls = <<>>
    /\ sm_returned = {}

\* a thread calls the class and enters `with cls._lock` (line 25)
SingletonAcquire ==
    \E t \in Threads :
        /\ sm_pc[t] \in {"idle", "raised"}
        /\ sm_calls[t] < MaxCalls
        /\ CanAcquire(lock, t)
        /\ lock' = t
        /\ sm_calls' = [sm_calls EXCEPT ![t] = @ + 1]
        /\ sm_pc' = [sm_pc EXCEPT ![t] = "check"]
        /\ UNCHANGED <<instances, init_runs, sm_instance, sm_returned>>
        /\ UNCHANGED <<varsT, varsG, varsS, varsO, varsC, varsL, varsA,
                       varsH, varsF, varsM, varsR, varsD, varsV, varsB, varsI>>

\* `if cls not in cls._instances` (line 26)
SingletonCheck ==
    \E t \in Threads :
        /\ sm_pc[t] = "check"
        /\ sm_pc' = [sm_pc EXCEPT ![t] = IF instances = 0 THEN "construct"
                                         ELSE "release"]
        /\ UNCHANGED <<instances, lock, init_runs, sm_instance, sm_calls,
                       sm_returned>>
        /\ UNCHANGED <<varsT, varsG, varsS, varsO, varsC, varsL, varsA,
                       varsH, varsF, varsM, varsR, varsD, varsV, varsB, varsI>>

\* `instance = super().__call__(*args, **kwargs)` (line 27): the
\* constructor body runs and gives a new object
SingletonConstruct ==
    \E t \in Threads :
        /\ sm_pc[t] = "construct"
        /\ init_runs' = init_runs + 1
        /\ sm_instance' = [sm_instance EXCEPT ![t] = init_runs']
        /\ sm_pc' = [sm_pc EXCEPT ![t] = "store"]
        /\ UNCHANGED <<instances, lock, sm_calls, sm_returned>>
        /\ UNCHANGED <<varsT, varsG, varsS, varsO, varsC, varsL, varsA,
                       varsH, varsF, varsM, varsR, varsD, varsV, varsB, varsI>>

\* `cls._instances[cls] = instance` (line 28)
SingletonStore ==
    \E t \in Threads :
        /\ sm_pc[t] = "store"
        /\ instances' = sm_instance[t]
        /\ sm_pc' = [sm_pc EXCEPT ![t] = "release"]
        /\ UNCHANGED <<lock, init_runs, sm_instance, sm_calls, sm_returned>>
        /\ UNCHANGED <<varsT, varsG, varsS, varsO, varsC, varsL, varsA,
                       varsH, varsF, varsM, varsR, varsD, varsV, varsB, varsI>>

\* the with block is left: the lock is released if this thread holds it
SingletonRelease ==
    \E t \in Threads :
        /\ sm_pc[t] = "release"
        /\ lock' = IF lock = t THEN 0 ELSE lock
        /\ sm_pc' = [sm_pc EXCEPT ![t] = "return"]
        /\ UNCHANGED <<instances, init_runs, sm_instance, sm_calls,
                       sm_returned>>
        /\ UNCHANGED <<varsT, varsG, varsS, varsO, varsC, varsL, varsA,
                       varsH, varsF, varsM, varsR, varsD, varsV, varsB, varsI>>

\* the registry is not looked up again: the call returns the instance it
\* found or created under the lock
SingletonReturn_NoLookup ==
    \E t \in Threads :
        /\ sm_pc[t] = "return"
        /\ sm_returned' = sm_returned \cup {Max(instances, sm_instance[t])}
        /\ sm_instance' = [sm_instance EXCEPT ![t] = 0]
        /\ sm_pc' = [sm_pc EXCEPT ![t] = "idle"]
        /\ UNCHANGED <<instances, lock, init_runs, sm_calls>>
        /\ UNCHANGED <<varsT, varsG, varsS, varsO, varsC, varsL, varsA,
                       varsH, varsF, varsM, varsR, varsD, varsV, varsB, varsI>>

\* `return cls._instances[cls]` (line 29), outside the lock; a registry
\* without the class raises KeyError
SingletonReturn ==
    \E t \in Threads :
        /\ sm_pc[t] = "return"
        /\ IF instances = 0
           THEN /\ sm_pc' = [sm_pc EXCEPT ![t] = "raised"]
                /\ UNCHANGED sm_returned
           ELSE /\ sm_pc' = [sm_pc EXCEPT ![t] = "idle"]
                /\ sm_returned' = sm_returned \cup {instances}
        /\ sm_instance' = [sm_instance EXCEPT ![t] = 0]
        /\ UNCHANGED <<instances, lock, init_runs, sm_calls>>
        /\ UNCHANGED <<varsT, varsG, varsS, varsO, varsC, varsL, varsA,
                       varsH, varsF, varsM, varsR, varsD, varsV, varsB, varsI>>

\* clear (lines 31-32): a thread that is not inside a constructor call
\* rebinds the registry to an empty dict, whoever holds the lock; the
\* exploration stops clearing once more than MaxCleared instances exist
SingletonClear ==
    \E t \in Threads :
        /\ sm_pc[t] \in {"idle", "raised"}
        /\ init_runs <= MaxCleared
        /\ instances' = 0
        /\ UNCHANGED <<lock, init_runs, sm_pc, sm_instance, sm_calls,
                       sm_returned>>
        /\ UNCHANGED <<varsT, varsG, varsS, varsO, varsC, varsL, varsA,
                       varsH, varsF, varsM, varsR, varsD, varsV, varsB, varsI>>

NextN ==
    \/ SingletonAcquire
    \/ SingletonCheck
    \/ SingletonConstruct
    \/ SingletonStore
    \/ SingletonRelease
    \/ SingletonReturn

\* ------------------------------------------------------------------------
\* PipelineAdapter (adapters.py): objects are named by their place in
\* ad_heap, so that a copy is a new object and a change of an object in
\* place is seen by everyone who holds it
\* ------------------------------------------------------------------------
OperationTypes == {"ridge", "scaling"}
CustomParams == {"default_params", "alpha"}

\* an operation object built from its name (Node.__init__)
OperationByName(name) == [operation_type |-> name]

\* str(node.operation)
OperationStr(operation) == operation.operation_type

\* PrimaryNode / SecondaryNode __init__: the operation is built from its
\* name, the parameters are taken from the content, the node is not fitted
NodeInit(class, nodes_from, operation_type, content) ==
    [class |-> class, operation |-> OperationByName(operation_type),
     custom_params |-> content.params, nodes_from |-> nodes_from,
     fitted_operation |-> FALSE]

\* the node lists of the pipelines: node k takes its input from later
\* nodes only, node 1 is the only node that is nobody's input
PipelineNodes ==
    UNION {{ns \in [1..k -> [class : {"PrimaryNode", "SecondaryNode"},
                              operation : {OperationByName(o) :
                                               o \in OperationTypes},
                              custom_params : CustomParams,
                              nodes_from : SUBSET (1..k),
                              fitted_operation : BOOLEAN]] :
              /\ \A i \in 1..k :
                    /\ \A j \in ns[i].nodes_from : j > i
                    /\ ns[i].class = IF ns[i].nodes_from = {}
                                     THEN "PrimaryNode" ELSE "SecondaryNode"
                    /\ ns[i].fitted_operation = ns[1].fitted_operation
              /\ \A j \in 2..k : \E i \in 1..k : j \in ns[i].nodes_from} :
           k \in 1..MaxAdaptNodes}

\* _transform_to_opt_node (lines 76-94)
TransformToOptNode(node) ==
    IF node.class \in {"OptNode", "GraphNode"} THEN node
    ELSE [class |-> "OptNode",
          content |-> [name |-> OperationStr(node.operation),
                       params |-> node.custom_params],
          nodes_from |-> node.nodes_from]

\* _transform_to_pipeline_node (lines 96-106)
TransformToPipelineNode(node) ==
    NodeInit(IF node.nodes_from # {} THEN "SecondaryNode" ELSE "PrimaryNode",
             node.nodes_from, node.content.name, node.content)

\* the nodes of the argument itself are transformed, without a copy
PipelineAdapter_adapt_InPlace(heap, i) ==
    LET nodes == [k \in 1..Len(heap[i].nodes) |->
                      TransformToOptNode(heap[i].nodes[k])]
    IN  Append([heap EXCEPT ![i].nodes = nodes],
               [class |-> "OptGraph", nodes |-> nodes])

\* PipelineAdapter._adapt (lines 108-117): the nodes of a deep copy are
\* transformed and put into a new OptGraph
PipelineAdapter_adapt(heap, i) ==
    LET source_pipeline == heap[i]
        nodes == [k \in 1..Len(source_pipeline.nodes) |->
                      TransformToOptNode(source_pipeline.nodes[k])]
    IN  Append(heap, [class |-> "OptGraph", nodes |-> nodes])

\* PipelineAdapter._restore (lines 119-130)
PipelineAdapter_restore(heap, i) ==
    LET source_graph == heap[i]
        nodes == [k \in 1..Len(source_graph.nodes) |->
                      TransformToPipelineNode(source_graph.nodes[k])]
    IN  Append(heap, [class |-> "Pipeline", nodes |-> nodes])

InitD ==
    /\ \E ns \in PipelineNodes :
          /\ ad_heap = <<[class |-> "Pipeline", nodes |-> ns]>>
          /\ ad_input = [class |-> "Pipeline", nodes |-> ns]
    /\ ad_origin = <<0>>
    /\ ad_call = [op |-> "none", arg |-> 0, result |-> 0]

IdleD ==
    /\ ad_heap = <<>>
    /\ ad_origin = <<>>
    /\ ad_input = <<>>
    /\ ad_call = [op |-> "none", arg |-> 0, result |-> 0]

\* BaseOptimizationAdapter.adapt (lines 24-27)
Adapt ==
    \E i \in 1..Len(ad_heap) :
        /\ IF ad_heap[i].class = "OptGraph"
           THEN /\ ad_call' = [op |-> "adapt", arg |-> i, result |-> i]
                /\ UNCHANGED <<ad_heap, ad_origin>>
           ELSE /\ Len(ad_heap) < MaxHeap
                /\ ad_heap' = PipelineAdapter_adapt(ad_heap, i)
                /\ ad_origin' = Append(ad_origin, i)
                /\ ad_call' = [op |-> "adapt", arg |-> i,
                               result |-> Len(ad_heap')]
        /\ UNCHANGED ad_input
        /\ UNCHANGED <<varsT, varsG, varsS, varsO, varsC, varsL, varsA,
                       varsH, varsF, varsM, varsR, varsN, varsV, varsB, varsI>>

\* BaseOptimizationAdapter.restore (lines 29-32)
Restore ==
    \E i \in 1..Len(ad_heap) :
        /\ IF ad_heap[i].class = "Pipeline"
           THEN /\ ad_call' = [op |-> "restore", arg |-> i, result |-> i]
                /\ UNCHANGED <<ad_heap, ad_origin>>
           ELSE /\ Len(ad_heap) < MaxHeap
                /\ ad_heap' = PipelineAdapter_restore(ad_heap, i)
                /\ ad_origin' = Append(ad_origin, i)
                /\ ad_call' = [op |-> "restore", arg |-> i,
                               result |-> Len(ad_heap')]
        /\ UNCHANGED ad_input
        /\ UNCHANGED <<varsT, varsG, varsS, varsO, varsC, varsL, varsA,
                       varsH, varsF, varsM, varsR, varsN, varsV, varsB, varsI>>

NextD ==
    \/ Adapt
    \/ Restore

\* ------------------------------------------------------------------------
\* rules_by_task (verification.py 29-65)
\* ------------------------------------------------------------------------
\* TaskTypesEnum and the absent task
TaskTypes ==
    {"classification", "regression", "ts_forecasting", "clustering", "None"}

\* the values a caller passes as rules: the default (), and lists of its own
CallerRules == {<<>>, <<"has_one_root">>, <<"custom_rule", "has_no_cycle">>}

\* the baseline list itself is extended and returned
rules_by_task_Alias(task_type, rules, common, ts, class) ==
    LET base == IF rules # <<>> THEN rules ELSE common
        tmp_rules == IF task_type = "ts_forecasting" THEN base \o ts
                     ELSE IF task_type = "classification" THEN base \o class
                     ELSE base
    IN  [tmp_rules |-> tmp_rules,
         common_rules |-> IF rules # <<>> THEN common ELSE tmp_rules]

\* rules_by_task (lines 54-65): the list it returns and common_rules as the
\* call leaves it
rules_by_task(task_type, rules, common, ts, class) ==
    LET base == <<>> \o (IF rules # <<>> THEN rules ELSE common)
        tmp_rules == IF task_type = "ts_forecasting" THEN base \o ts
                     ELSE IF task_type = "classification" THEN base \o class
                     ELSE base
    IN  [tmp_rules |-> tmp_rules, common_rules |-> common]

InitV ==
    /\ common_rules = <<"has_one_root", "has_no_cycle",
                        "has_no_self_cycled_nodes", "has_no_isolated_nodes",
                        "has_primary_nodes", "has_correct_operation_positions",
                        "has_final_operation_as_model",
                        "has_no_conflicts_with_data_flow",
                        "has_no_conflicts_in_decompose",
                        "has_correct_data_connections",
                        "has_correct_data_sources">>
    /\ ts_rules = <<"is_pipeline_contains_ts_operations",
                    "only_non_lagged_operations_are_primary",
                    "has_no_data_flow_conflicts_in_ts_pipeline">>
    /\ class_rules = <<"has_no_conflicts_during_multitask",
                       "has_no_conflicts_after_class_decompose">>
    /\ vr_returned = <<>>
    /\ vr_call = [task_type |-> "None", rules |-> <<>>, result |-> <<>>]

IdleV ==
    /\ common_rules = <<>>
    /\ ts_rules = <<>>
    /\ class_rules = <<>>
    /\ vr_returned = <<>>
    /\ vr_call = [task_type |-> "None", rules |-> <<>>, result |-> <<>>]

\* one call of rules_by_task
RulesByTask ==
    \E task_type \in TaskTypes, rules \in CallerRules :
        LET r == rules_by_task(task_type, rules, common_rules, ts_rules,
                               class_rules)
        IN  /\ Len(vr_returned) < MaxRuleCalls
            /\ common_rules' = r.common_rules
            /\ vr_returned' = Append(vr_returned, r.tmp_rules)
            /\ vr_call' = [task_type |-> task_type, rules |-> rules,
                           result |-> r.tmp_rules]
            /\ UNCHANGED <<ts_rules, class_rules>>
            /\ UNCHANGED <<varsT, varsG, varsS, varsO, varsC, varsL, varsA,
                       varsH, varsF, varsM, varsR, varsN, varsD, varsB, varsI>>

\* a caller adds a rule of its own to a list it was given
CallerExtends ==
    \E k \in 1..Len(vr_returned) :
        /\ Cardinality({h \in 1..Len(vr_returned[k]) :
                            vr_returned[k][h] = "caller_rule"}) < MaxCallerRules
        /\ vr_returned' = [vr_returned EXCEPT
                               ![k] = Append(@, "caller_rule")]
        /\ UNCHANGED <<common_rules, ts_rules, class_rules, vr_call>>
        /\ UNCHANGED <<varsT, varsG, varsS, varsO, varsC, varsL, varsA,
                       varsH, varsF, varsM, varsR, varsN, varsD, varsB, varsI>>

NextV ==
    \/ RulesByTask
    \/ CallerExtends

\* ------------------------------------------------------------------------
\* OptHistory.get_leaderboard (opt_history.py 245-278); generations and
\* positions are counted from 0 as enumerate does
\* ------------------------------------------------------------------------
LbIndividuals ==
    [descriptive_id : 1..MaxLbGraph, fitness : 0..MaxLbFitness]

\* the triples (ind, gen_num, ind_num) in the order the comprehension of
\* lines 252-254 goes through them: generations ascending, the individuals
\* of a generation from the last to the first
RECURSIVE Enumerated(_, _)
Enumerated(gens, g) ==
    IF g > Len(gens) THEN <<>>
    ELSE [k \in 1..Len(gens[g]) |->
             LET i == Len(gens[g]) + 1 - k
             IN  [ind |-> gens[g][i], gen_num |-> g - 1,
                  ind_num |-> i - 1]]
         \o Enumerated(gens, g + 1)

\* list({key: value for ...}.values()): a key keeps the place of its first
\* insertion and the value stored last under it
RECURSIVE DictValues(_, _)
DictValues(items, dict) ==
    IF items = <<>> THEN dict
    ELSE LET key == Head(items).ind.descriptive_id
             at == {k \in 1..Len(dict) : dict[k].ind.descriptive_id = key}
         IN  DictValues(Tail(items),
                        IF at = {} THEN Append(dict, Head(items))
                        ELSE [dict EXCEPT ![CHOOSE k \in at : TRUE]
                                              = Head(items)])

\* sorted(..., key=fitness, reverse=True): descending fitness, entries of
\* equal fitness keep their order
RECURSIVE SortedByFitness(_)
SortedByFitness(rows) ==
    IF rows = <<>> THEN <<>>
    ELSE LET k == CHOOSE x \in 1..Len(rows) :
                      \A y \in 1..Len(rows) :
                          \/ rows[x].ind.fitness > rows[y].ind.fitness
                          \/ /\ rows[x].ind.fitness = rows[y].ind.fitness
                             /\ x <= y
         IN  <<rows[k]>> \o SortedByFitness(SubSeq(rows, 1, k - 1)
                                             \o SubSeq(rows, k + 1, Len(rows)))

\* get_leaderboard: the rows of top_individuals (lines 251-269) and the
\* rows of the initial assumptions, generation 0 (lines 271-277)
get_leaderboard(gens, top_n) ==
    LET individuals_with_positions ==
            DictValues(Enumerated(gens, 1), <<>>)
        sorted == SortedByFitness(individuals_with_positions)
    IN  [top_individuals |-> SubSeq(sorted, 1, Min(top_n, Len(sorted))),
         initial |-> gens[1]]

InitB ==
    /\ lb_individuals \in
           SeqsUpTo(SeqsUpTo(LbIndividuals, MaxLbIndividuals),
                    MaxLbGenerations) \ {<<>>}
    /\ lb_top_n \in 0..MaxTopN
    /\ lb_output = [top_individuals |-> <<>>, initial |-> <<>>]
    /\ lb_pc = "call"

IdleB ==
    /\ lb_individuals = <<>>
    /\ lb_top_n = 0
    /\ lb_output = [top_individuals |-> <<>>, initial |-> <<>>]
    /\ lb_pc = "off"

GetLeaderboard ==
    /\ lb_pc = "call"
    /\ lb_output' = get_leaderboard(lb_individuals, lb_top_n)
    /\ lb_pc' = "done"
    /\ UNCHANGED <<lb_individuals, lb_top_n>>
    /\ UNCHANGED <<varsT, varsG, varsS, varsO, varsC, varsL, varsA,
                       varsH, varsF, varsM, varsR, varsN, varsD, varsV, varsI>>

\* ------------------------------------------------------------------------
\* Selection.__call__, _selection_by_type and individuals_selection
\* (selection.py 16-61); requirements objects are named by their place in
\* req_heap
\* ------------------------------------------------------------------------
\* the selection types an operator is built with; "other" stands for a
\* value that is no key of the selections dict
SelectionTypes == {"tournament", "spea2", "other"}

\* the lists of individuals with pairwise distinct uids
SelectionInputs ==
    {s \in SeqsUpTo([uid : 1..MaxSelPop, fitness : 0..MaxSelFit], MaxSelPop) :
        \A j, k \in 1..Len(s) : j # k => s[j].uid # s[k].uid}

\* the groups random_selection can hand to a round of the tournament
TournamentGroups(inds) ==
    IF Len(inds) <= 1 THEN {Repeat(inds[1], GroupSize(inds))}
    ELSE {[k \in 1..GroupSize(inds) |-> inds[g[k]]] :
              g \in {h \in [1..GroupSize(inds) -> 1..Len(inds)] :
                        \A j, k \in 1..GroupSize(inds) : j # k => h[j] # h[k]}}

\* self.__call__(remaining_individuals)[0] (lines 21-27, 52): the
\* individuals that can come first in the list the selection of the given
\* type returns
FirstSelected(selection_type, inds, n) ==
    IF selection_type = "tournament"
    THEN {BestOf(g) : g \in TournamentGroups(inds)}
    ELSE {inds[r.list[1] + 1] :
              r \in Spea2Selection([k \in 1..Len(inds) |->
                                        <<inds[k].fitness>>], n)}

\* the chosen individual stays in the list
RemainingAfter_Kept(remaining, individual, n, pool_size) == remaining

\* if pop_size <= individuals_pool_size:
\*     remaining_individuals.remove(individual)   (lines 55-56)
RemainingAfter(remaining, individual, n, pool_size) ==
    IF n <= pool_size
    THEN LET k == CHOOSE j \in 1..Len(remaining) :
                      /\ remaining[j] = individual
                      /\ \A h \in 1..(j - 1) : remaining[h] # individual
         IN  SubSeq(remaining, 1, k - 1) \o SubSeq(remaining, k + 1, Len(remaining))
    ELSE remaining

\* the operator's own requirements object is kept aside, without a copy
Deepcopied_Alias(heap, ref) == [heap |-> heap, ref |-> ref]

\* deepcopy(self.requirements) (line 49): a new object with the same fields
Deepcopied(heap, ref) == [heap |-> Append(heap, heap[ref]), ref |-> Len(heap) + 1]

\* the while-test of line 51
SelectionLoopCond ==
    /\ Len(is_chosen) < is_pop_size
    /\ is_n_iter < is_pop_size * 10
    /\ is_individuals # <<>>

InitI ==
    /\ selection_types \in (SUBSET SelectionTypes) \ {{}}
    /\ req_heap \in [1..1 -> [pop_size : 0..MaxSelTarget]]
    /\ self_requirements = 1
    /\ old_requirements = 0
    /\ is_individuals \in SelectionInputs
    /\ is_input = is_individuals
    /\ is_pop_size = 0
    /\ is_chosen = <<>>
    /\ is_n_iter = 0
    /\ is_returned = "nothing"
    /\ is_pc = "call"

IdleI ==
    /\ selection_types = {}
    /\ req_heap = <<>>
    /\ self_requirements = 0
    /\ old_requirements = 0
    /\ is_individuals = <<>>
    /\ is_input = <<>>
    /\ is_pop_size = 0
    /\ is_chosen = <<>>
    /\ is_n_iter = 0
    /\ is_returned = "nothing"
    /\ is_pc = "off"

\* lines 43-50: the call up to the loop
IndividualsSelectionStart ==
    /\ is_pc = "call"
    /\ is_pop_size' = req_heap[self_requirements].pop_size
    /\ IF is_pop_size' = Len(is_individuals)
       THEN /\ is_chosen' = is_individuals
            /\ is_returned' = "individuals"
            /\ is_pc' = "returned"
            /\ UNCHANGED <<req_heap, old_requirements>>
       ELSE LET copy == Deepcopied(req_heap, self_requirements)
            IN  /\ is_chosen' = <<>>
                /\ old_requirements' = copy.ref
                /\ req_heap' = [copy.heap EXCEPT
                                   ![self_requirements].pop_size = 1]
                /\ is_pc' = "loop"
                /\ UNCHANGED is_returned
    /\ is_n_iter' = 0
    /\ UNCHANGED <<selection_types, self_requirements, is_individuals,
                   is_input>>
    /\ UNCHANGED <<varsT, varsG, varsS, varsO, varsC, varsL, varsA,
                       varsH, varsF, varsM, varsR, varsN, varsD, varsV, varsB>>

\* one iteration of the loop (lines 51-57); a selection type that is no
\* key of the selections dict raises ValueError (lines 34-37)
IndividualsSelectionStep ==
    /\ is_pc = "loop"
    /\ SelectionLoopCond
    /\ \E selection_type \in selection_types :
          IF selection_type \notin {"tournament", "spea2"}
          THEN /\ is_pc' = "raised"
               /\ UNCHANGED <<is_individuals, is_chosen, is_n_iter>>
          ELSE \E individual \in
                      FirstSelected(selection_type, is_individuals,
                                    req_heap[self_requirements].pop_size) :
                  /\ IF individual.uid \notin Uids(is_chosen)
                     THEN /\ is_chosen' = Append(is_chosen, individual)
                          /\ is_individuals' =
                                 RemainingAfter(is_individuals, individual,
                                                is_pop_size, Len(is_input))
                     ELSE UNCHANGED <<is_chosen, is_individuals>>
                  /\ is_n_iter' = is_n_iter + 1
                  /\ UNCHANGED is_pc
    /\ UNCHANGED <<selection_types, req_heap, self_requirements,
                   old_requirements, is_input, is_pop_size, is_returned>>
    /\ UNCHANGED <<varsT, varsG, varsS, varsO, varsC, varsL, varsA,
                       varsH, varsF, varsM, varsR, varsN, varsD, varsV, varsB>>

\* the loop is left: the requirements kept aside are put back and the
\* new list is returned (lines 58-59)
IndividualsSelectionReturn ==
    /\ is_pc = "loop"
    /\ ~SelectionLoopCond
    /\ self_requirements' = old_requirements
    /\ is_returned' = "chosen"
    /\ is_pc' = "returned"
    /\ UNCHANGED <<selection_types, req_heap, old_requirements,
                   is_individuals, is_input, is_pop_size, is_chosen,
                   is_n_iter>>
    /\ UNCHANGED <<varsT, varsG, varsS, varsO, varsC, varsL, varsA,
                       varsH, varsF, varsM, varsR, varsN, varsD, varsV, varsB>>

NextI ==
    \/ IndividualsSelectionStart
    \/ IndividualsSelectionStep
    \/ IndividualsSelectionReturn

\* ==== Specifications ====

InitGenerator == InitG /\ IdleT /\ IdleS /\ IdleO /\ IdleC /\ IdleL /\ IdleA /\ IdleH /\ IdleF /\ IdleM /\ IdleR /\ IdleN /\ IdleD /\ IdleV /\ IdleB /\ IdleI

SpecGenerator == InitGenerator /\ [][NextG]_vars

InitSpea2 == InitS /\ IdleT /\ IdleG /\ IdleO /\ IdleC /\ IdleL /\ IdleA /\ IdleH /\ IdleF /\ IdleM /\ IdleR /\ IdleN /\ IdleD /\ IdleV /\ IdleB /\ IdleI

SpecSpea2 == InitSpea2 /\ [][NextS]_vars

InitTournament == InitT /\ IdleG /\ IdleS /\ IdleO /\ IdleC /\ IdleL /\ IdleA /\ IdleH /\ IdleF /\ IdleM /\ IdleR /\ IdleN /\ IdleD /\ IdleV /\ IdleB /\ IdleI

SpecTournament == InitTournament /\ [][NextT]_vars

InitOperators == InitO /\ IdleT /\ IdleG /\ IdleS /\ IdleC /\ IdleL /\ IdleA /\ IdleH /\ IdleF /\ IdleM /\ IdleR /\ IdleN /\ IdleD /\ IdleV /\ IdleB /\ IdleI

SpecOperators == InitOperators /\ [][NextO]_vars

InitEvaluator == InitC /\ IdleT /\ IdleG /\ IdleS /\ IdleO /\ IdleL /\ IdleA /\ IdleH /\ IdleF /\ IdleM /\ IdleR /\ IdleN /\ IdleD /\ IdleV /\ IdleB /\ IdleI

SpecEvaluator == InitEvaluator /\ [][NextC]_vars

InitLoop == InitL /\ IdleT /\ IdleG /\ IdleS /\ IdleO /\ IdleC /\ IdleA /\ IdleH /\ IdleF /\ IdleM /\ IdleR /\ IdleN /\ IdleD /\ IdleV /\ IdleB /\ IdleI

SpecLoop == InitLoop /\ [][NextL]_vars

\* the control loop is a single thread that keeps running
SpecLoopLive == SpecLoop /\ WF_vars(NextL)

InitArchive == InitA /\ IdleT /\ IdleG /\ IdleS /\ IdleO /\ IdleC /\ IdleL /\ IdleH /\ IdleF /\ IdleM /\ IdleR /\ IdleN /\ IdleD /\ IdleV /\ IdleB /\ IdleI

SpecArchive == InitArchive /\ [][ArchiveUpdate]_vars

InitHistory == InitH /\ IdleT /\ IdleG /\ IdleS /\ IdleO /\ IdleC /\ IdleL /\ IdleA /\ IdleF /\ IdleM /\ IdleR /\ IdleN /\ IdleD /\ IdleV /\ IdleB /\ IdleI

SpecHistory == InitHistory /\ [][NextH]_vars

InitEvaluation == InitF /\ IdleT /\ IdleG /\ IdleS /\ IdleO /\ IdleC /\ IdleL /\ IdleA /\ IdleH /\ IdleM /\ IdleR /\ IdleN /\ IdleD /\ IdleV /\ IdleB /\ IdleI

SpecEvaluation == InitEvaluation /\ [][NextF]_vars

InitComposer == InitM /\ IdleT /\ IdleG /\ IdleS /\ IdleO /\ IdleC /\ IdleL /\ IdleA /\ IdleH /\ IdleF /\ IdleR /\ IdleN /\ IdleD /\ IdleV /\ IdleB /\ IdleI

SpecComposer == InitComposer /\ [][NextM]_vars

InitRootNode == InitR /\ IdleT /\ IdleG /\ IdleS /\ IdleO /\ IdleC /\ IdleL /\ IdleA /\ IdleH /\ IdleF /\ IdleM /\ IdleN /\ IdleD /\ IdleV /\ IdleB /\ IdleI

SpecRootNode == InitRootNode /\ [][RootNodeLookup]_vars

InitSingleton == InitN /\ IdleT /\ IdleG /\ IdleS /\ IdleO /\ IdleC /\ IdleL /\ IdleA /\ IdleH /\ IdleF /\ IdleM /\ IdleR /\ IdleD /\ IdleV /\ IdleB /\ IdleI

SpecSingleton == InitSingleton /\ [][NextN]_vars

InitAdapter == InitD /\ IdleT /\ IdleG /\ IdleS /\ IdleO /\ IdleC /\ IdleL /\ IdleA /\ IdleH /\ IdleF /\ IdleM /\ IdleR /\ IdleN /\ IdleV /\ IdleB /\ IdleI

SpecAdapter == InitAdapter /\ [][NextD]_vars

InitSpea2Density == InitW /\ IdleT /\ IdleG /\ IdleO /\ IdleC /\ IdleL /\ IdleA /\ IdleH /\ IdleF /\ IdleM /\ IdleR /\ IdleN /\ IdleD /\ IdleV /\ IdleB /\ IdleI

SpecSpea2Density == InitSpea2Density /\ [][NextS]_vars

InitRules == InitV /\ IdleT /\ IdleG /\ IdleS /\ IdleO /\ IdleC /\ IdleL /\ IdleA /\ IdleH /\ IdleF /\ IdleM /\ IdleR /\ IdleN /\ IdleD /\ IdleB /\ IdleI

SpecRules == InitRules /\ [][NextV]_vars

InitLeaderboard == InitB /\ IdleT /\ IdleG /\ IdleS /\ IdleO /\ IdleC /\ IdleL /\ IdleA /\ IdleH /\ IdleF /\ IdleM /\ IdleR /\ IdleN /\ IdleD /\ IdleV /\ IdleI

SpecLeaderboard == InitLeaderboard /\ [][GetLeaderboard]_vars

InitSelection == InitI /\ IdleT /\ IdleG /\ IdleS /\ IdleO /\ IdleC /\ IdleL /\ IdleA /\ IdleH /\ IdleF /\ IdleM /\ IdleR /\ IdleN /\ IdleD /\ IdleV /\ IdleB

SpecSelection == InitSelection /\ [][NextI]_vars

\* constructor calls with clear called in between
SpecSingletonClear == InitSingleton /\ [][NextN \/ SingletonClear]_vars

\* ==== Claims ====

\* C1: every graph a mutation or crossover returns is accepted by the
\* verifier, or the operator returned its input (the individual, or both
\* parents) with the graphs unchanged.
C1_VerifiedOrOriginal ==
    op_pc = "returned" =>
        \/ op_result = op_input
        \/ /\ Len(op_result) = Len(op_input)
           /\ \A k \in 1..Len(op_result) : Verify(op_result[k])

\* C1 witness: a mutation returned a new graph, which the verifier
\* accepts, after the verifier had rejected an earlier candidate.
C1_Witness ==
    /\ op_pc = "returned"
    /\ op_kind = "mutation"
    /\ op_attempts > 0
    /\ op_result # op_input
    /\ Verify(op_result[1])

\* C2: the external fitness function is invoked at most once per
\* fingerprint over the whole run, every individual is answered with the
\* value the cache holds for its fingerprint, and no step removes or
\* replaces a cache entry.
C2_AtMostOncePerFingerprint ==
    [][/\ \A fp \in Fingerprints : eval_calls'[fp] <= 1
       /\ \A fp \in DOMAIN cache :
            fp \in DOMAIN cache' /\ cache'[fp] = cache[fp]
       /\ \A i \in 1..Len(ec_results') :
            ec_results'[i] = cache'[ec_batch'[i]]]_vars

\* C2 witness: in a later generation a fingerprint is requested again,
\* more than once, and is answered although the external function was
\* invoked for it once only.
C2_Witness ==
    /\ ec_pc = "ready"
    /\ ec_gen >= 2
    /\ \E fp \in Fingerprints :
        /\ ec_requested[fp] >= 3
        /\ eval_calls[fp] = 1
        /\ Counted(ec_batch, fp) >= 1
        /\ Len(ec_results) = Len(ec_batch)

\* C3: at a generation boundary the loop enters Stopped exactly when the
\* time limit, the generation maximum or the stagnation window is
\* reached; Stopped is entered from a boundary only and nothing changes
\* after it; every run reaches Stopped.
C3_StopsAtFirstBoundary ==
    /\ [][/\ opt_state = "Boundary" =>
                (opt_state' = "Stopped" <=>
                    (TimeLimitReached \/ GenerationsReached
                        \/ StagnationReached))
          /\ opt_state' = "Stopped" => opt_state = "Boundary"
          /\ opt_state # "Stopped"]_vars
    /\ <>(opt_state = "Stopped")

\* C3 witness: the loop stopped on stagnation, before the time limit and
\* the generation maximum.
C3_Witness ==
    /\ opt_state = "Stopped"
    /\ StagnationReached
    /\ ~TimeLimitReached
    /\ ~GenerationsReached

C6_ArchiveBoundedNonDominated ==
    a_updates > 0 =>
        /\ Cardinality(archive) <= archive_size
        /\ \A a \in archive, b \in archive : ~Dominates(b, a)

\* C6 witness: after a second update call the archive is full and holds
\* more than one individual.
C6_Witness ==
    /\ a_updates >= 2
    /\ archive_size >= 2
    /\ Cardinality(archive) = archive_size
    /\ \E a \in archive, b \in archive : a # b

\* C7: tournament_selection always terminates: for every non-empty
\* population, also one whose entries share an individual id, it performs at
\* most pop_size * 10 rounds and every round's random group sampling finishes,
\* i.e. a call that has not returned can always still make progress.
C7_TournamentTerminates ==
    individuals # <<>> =>
        /\ n_iter <= pop_size * 10
        /\ (pc = "done" \/ ENABLED <<NextT>>_vars)

\* C8 (as stated): on a population of exactly one individual the result has
\* the requested size, every entry being that individual.
C8_SingleIndividualRepeated ==
    (pc = "done" /\ Len(individuals) = 1) =>
        chosen = Repeat(individuals[1], pop_size)

\* C8 (amended): on a population of exactly one individual the result is that
\* individual exactly once, whatever size was requested, and it is returned
\* after pop_size * 10 rounds when more than one was requested.
C8_SingleIndividualOnce ==
    (pc = "done" /\ Len(individuals) = 1) =>
        /\ chosen = <<individuals[1]>>
        /\ (pop_size > 1 => n_iter = pop_size * 10)

C8_Witness ==
    /\ pc = "done"
    /\ Len(individuals) = 1
    /\ pop_size > 1
    /\ chosen = <<individuals[1]>>

\* C9: spea2_selection on N >= 1 individuals with target n >= 1 returns
\* exactly min(n, N) entries, each an input position, no position twice; with
\* n = N the result is a permutation of the whole input.
C9_Spea2SizeAndDistinct ==
    s_pc = "done" =>
        /\ ~s_result.raised
        /\ Len(s_result.list) = Min(s_pop_size, Len(s_individuals))
        /\ \A k \in 1..Len(s_result.list) :
              s_result.list[k] \in 0..(Len(s_individuals) - 1)
        /\ NoDuplicates(s_result.list)
        /\ (s_pop_size = Len(s_individuals) =>
              SeqToSet(s_result.list) = 0..(Len(s_individuals) - 1))

\* a call with n = N = 3 that reorders the population
C9_Witness ==
    /\ s_pc = "done"
    /\ Len(s_individuals) = 3
    /\ s_pop_size = 3
    /\ s_result.list # <<0, 1, 2>>
    /\ SeqToSet(s_result.list) = {0, 1, 2}

\* C10 (as stated): every graph of a returned initial population, seed graphs
\* included, passes the verifier, and no two of them are structurally equal.
C10_PopulationVerifiedDistinct ==
    g_pc = "returned" =>
        /\ \A k \in 1..Len(g_result) : Verifier(g_result[k])
        /\ NoDuplicates(g_result)

\* C10 (amended): every graph of a population built by a generation function
\* (custom or random growth) passes the verifier and no two of them are
\* structurally equal; seed graphs are returned as supplied.
C10_GeneratedVerifiedDistinct ==
    (g_pc = "returned" /\ ~HasInitialGraphs) =>
        /\ \A k \in 1..Len(g_result) : Verifier(g_result[k])
        /\ NoDuplicates(g_result)

C10_Witness ==
    /\ g_pc = "returned"
    /\ ~HasInitialGraphs
    /\ Len(g_result) >= 2
    /\ g_n_iter > Len(g_result)

\* C11 (as stated): a call applies the strategies in strict priority: when a
\* non-empty list of seeds was supplied the call returns the first pop_size
\* graphs of the supplied list, in order, and invokes no generation function,
\* whatever generation function is installed; otherwise every candidate comes
\* from the custom function when one was supplied and from random growth only
\* when none was.
C11_SuppliedSeedsFirst ==
    [][(g_pc = "idle" /\ g_pc' # "idle") =>
         IF supplied_graphs # <<>>
         THEN /\ g_result' = Truncate(supplied_graphs, req_pop_size)
              /\ g_pc' = "returned"
              /\ g_n_iter' = 0
              /\ generation_function' = generation_function
         ELSE /\ g_pc' = "loop"
              /\ generation_function' = IF generation_function = "custom"
                                        THEN "custom"
                                        ELSE "random"]_vars

\* C11 (amended): as above, but the seeds returned are the first pop_size
\* graphs of the list the generator stores at the time of the call, which is
\* the supplied list cut down by the truncation of any earlier call.
C11_StoredSeedsFirst ==
    [][(g_pc = "idle" /\ g_pc' # "idle") =>
         IF supplied_graphs # <<>>
         THEN /\ g_result' = Truncate(initial_graphs.list, req_pop_size)
              /\ g_pc' = "returned"
              /\ g_n_iter' = 0
              /\ generation_function' = generation_function
         ELSE /\ g_pc' = "loop"
              /\ generation_function' = IF generation_function = "custom"
                                        THEN "custom"
                                        ELSE "random"]_vars

\* a call returned seeds, cut to pop_size, although a custom generation
\* function is installed
C11_Witness ==
    /\ g_pc = "returned"
    /\ generation_function = "custom"
    /\ Len(supplied_graphs) > g_pop_size
    /\ g_result = Truncate(supplied_graphs, g_pop_size)
    /\ g_n_iter = 0

\* C12: a generator call terminates without raising: the generation function
\* is invoked at most MAXIMAL_ATTEMPTS_NUMBER times, a call in progress can
\* always take its next step, the returned population has at most pop_size
\* graphs, and a population returned short of pop_size by the loop comes with
\* the ceiling reached and the warning logged.
C12_BoundedAttempts ==
    /\ g_n_iter <= MAXIMAL_ATTEMPTS_NUMBER
    /\ Len(population) <= g_pop_size
    /\ g_pc = "loop" =>
         /\ g_n_iter < MAXIMAL_ATTEMPTS_NUMBER
         /\ ENABLED (GeneratorLoopStep \/ GeneratorLoopExit)
    /\ g_pc = "returned" =>
         /\ Len(g_result) <= g_pop_size
         /\ (~HasInitialGraphs /\ Len(g_result) < g_pop_size) =>
              (g_warned /\ g_n_iter = MAXIMAL_ATTEMPTS_NUMBER)

\* the ceiling was reached with an empty population: the call returned the
\* empty list and logged the warning
C12_Witness ==
    /\ g_pc = "returned"
    /\ ~HasInitialGraphs
    /\ g_n_iter = MAXIMAL_ATTEMPTS_NUMBER
    /\ g_result = <<>>
    /\ g_warned

\* C13: the history is append-only and indexed by generation: both lists
\* are as long as the number of log_to_history calls made, each call adds
\* the population and the archive it was handed at the end of the lists,
\* and no step changes, reorders or removes an earlier entry.
C13_HistoryAppendOnly ==
    /\ [](/\ Len(history_individuals) = log_calls
          /\ Len(archive_history) = log_calls)
    /\ [][\/ /\ history_individuals' = history_individuals
             /\ archive_history' = archive_history
             /\ log_calls' = log_calls
          \/ /\ log_calls' = log_calls + 1
             /\ SubSeq(history_individuals', 1, log_calls)
                    = history_individuals
             /\ SubSeq(archive_history', 1, log_calls) = archive_history
             /\ history_individuals'[log_calls'] = log_population
             /\ archive_history'[log_calls'] = log_generations]_vars

\* three calls were made with different populations and archives
C13_Witness ==
    /\ log_calls = 3
    /\ history_individuals[1] # history_individuals[2]
    /\ archive_history[1] # archive_history[3]
    /\ saved_generation = 2

C15_FailedMutationReturnsInput ==
    op_kind = "mutation" =>
        /\ op_pc = "gate" => ENABLED OperatorGate
        /\ op_pc = "attempt" =>
            /\ op_attempts <= MaxOpAttempts
            /\ op_attempts = MaxOpAttempts => ENABLED OperatorExhausted
            /\ (/\ op_attempts < MaxOpAttempts
                /\ Candidates(op_type, op_input[1]) = {}) =>
                   ENABLED MutationAttempt
        /\ op_pc = "returned" =>
            /\ Len(op_result) = 1
            /\ op_prob = 0 => op_result = op_input
            /\ op_attempts = MaxOpAttempts => op_result = op_input
            /\ (/\ op_type \in {"single_drop", "reduce"}
                /\ Cardinality(op_input[1].nodes) = 1) =>
                   op_result = op_input

\* single_drop passed the gate on a single-node graph, used up its
\* attempts and returned the input
C15_Witness ==
    /\ op_kind = "mutation"
    /\ op_type = "single_drop"
    /\ op_pc = "returned"
    /\ op_prob = 100
    /\ Cardinality(op_input[1].nodes) = 1
    /\ op_attempts = MaxOpAttempts
    /\ op_result = op_input

\* C16: an evaluation that raises or runs into the time limit invalidates
\* the fitness of its individual only: a time-limited fit that raised
\* TimeoutError has left the computation time and the fitted operations of
\* the pipeline unassigned; the individual is not handed on and not
\* evaluated again, every individual handed on has a valid fitness, the
\* individuals whose fit returned keep a valid fitness, and the phase
\* always has a next step until it is done.
C16_FailureInvalidatesOneIndividual ==
    /\ fit_main = "raised_timeout" =>
          /\ ~computation_time[ev_current]
          /\ ~fitted_operation[ev_current]
    /\ \A i \in Evaluated :
          /\ i = ev_current => ev_fitness[i] = "unset"
          /\ ev_fitness[i] = "valid" => fitted_operation[i]
          /\ ev_fitness[i] = "invalid" => ~fitted_operation[i]
    /\ ev_pc = "evaluating" => ENABLED NextF
    /\ ev_pc = "done" =>
          /\ ev_evaluated = ValidOnes(ev_fitness, ev_size)
          /\ \A k \in 1..Len(ev_evaluated) :
                ev_fitness[ev_evaluated[k]] = "valid"
          /\ \A i \in Evaluated :
                ev_fitness[i] = "invalid" =>
                    \A k \in 1..Len(ev_evaluated) : ev_evaluated[k] # i

\* C17: compose_pipeline returns, for a multi-objective run, the list of the
\* pipelines restored from the optimiser's result, in the order of the
\* result, and for a single objective one pipeline, the first of that
\* list; in both cases best_models holds every restored pipeline.
C17_ComposeResult ==
    cp_pc = "returned" =>
        /\ Len(best_models) = Len(opt_result)
        /\ \A k \in 1..Len(opt_result) :
              /\ best_models[k].class = "Pipeline"
              /\ best_models[k].id = opt_result[k].id
        /\ is_multi_objective => best_model = best_models
        /\ ~is_multi_objective =>
              /\ Len(opt_result) >= 1
              /\ best_model = best_models[1]

\* a single-objective run returned the first of several different
\* restored pipelines
C17_Witness ==
    /\ cp_pc = "returned"
    /\ ~is_multi_objective
    /\ Len(opt_result) = 3
    /\ opt_result[1].class = "OptGraph"
    /\ opt_result[1].id # opt_result[3].id
    /\ best_model = best_models[1]
    /\ Len(best_models) = 3

\* C18: under the parameter-free scheme stagnation may raise the population
\* size and the allowed depth, but in every reachable state both are within
\* their configured ceilings; under automatic depth configuration the depth
\* bound starts at start_depth and never exceeds max_depth; neither bound
\* ever shrinks, and a scheme of fixed size keeps its population size.
C18_GrowthWithinCeilings ==
    /\ [](/\ cur_pop_size <= max_pop_size
          /\ cur_max_depth <= max_depth
          /\ (with_auto_depth_configuration /\ opt_state = "Initializing")
                => cur_max_depth = start_depth
          /\ with_auto_depth_configuration => cur_max_depth >= start_depth
          /\ ~with_auto_depth_configuration => cur_max_depth = max_depth)
    /\ [][/\ cur_pop_size' >= cur_pop_size
          /\ cur_max_depth' >= cur_max_depth
          /\ genetic_scheme_type # "parameter_free"
                => cur_pop_size' = cur_pop_size
          /\ (cur_pop_size' # cur_pop_size \/ cur_max_depth' # cur_max_depth)
                => (stagnation_duration > 0 /\ ~StopCondition)]_vars

\* a parameter-free run with automatic depth configuration has raised the
\* population size and the depth bound, each up to its ceiling
C18_Witness ==
    /\ genetic_scheme_type = "parameter_free"
    /\ with_auto_depth_configuration
    /\ opt_state = "Selecting"
    /\ stagnation_duration > 0
    /\ start_depth < max_depth
    /\ cur_max_depth = max_depth
    /\ cur_pop_size = max_pop_size
    /\ max_pop_size > 1
    /\ history[1].best = best_fitness

\* C19: the root lookup gives None for a pipeline without nodes, the node
\* without children when there is exactly one, and raises when there is
\* more than one; a node it returns is never one of several roots.
C19_RootLookup ==
    rn_pc = "done" =>
        LET childless == {n \in rn_pipeline.nodes :
                            ChildrenOf(rn_pipeline, n) = {}}
        IN  /\ rn_pipeline.nodes = {} => rn_result.kind = "None"
            /\ Cardinality(childless) = 1 =>
                  /\ rn_result.kind = "node"
                  /\ rn_result.node \in childless
            /\ Cardinality(childless) > 1 =>
                  rn_result.kind \in {"ValueError", "IndexError"}
            /\ rn_result.kind = "node" => childless = {rn_result.node}

\* the lookup raised for a pipeline with two nodes without children
C19_Witness ==
    /\ rn_pc = "done"
    /\ Cardinality(rn_pipeline.nodes) = 3
    /\ Cardinality(RootNodes(rn_pipeline)) = 2
    /\ rn_result.kind = "ValueError"

\* C20: whatever the number of constructor calls and the interleaving of
\* the threads that make them, every call returns the same instance and
\* the constructor body runs exactly once: at most once at any time, and
\* once as soon as a call has got past the construction.
C20_OneInstance ==
    /\ init_runs <= 1
    /\ Cardinality(sm_returned) <= 1
    /\ sm_returned \subseteq {1}
    /\ (\E t \in Threads : sm_pc[t] \in {"store", "release", "return"})
          => init_runs = 1
    /\ sm_returned # {} => (init_runs = 1 /\ instances = 1)

\* every thread has made all its calls, and all of them returned the
\* instance of the single constructor run
C20_Witness ==
    /\ \A t \in Threads : sm_calls[t] = MaxCalls /\ sm_pc[t] = "idle"
    /\ sm_returned = {1}
    /\ init_runs = 1

\* the descriptive id of node k of a node list: the descriptive ids of
\* its inputs, its operation and its parameters
RECURSIVE DescriptiveId(_, _)
DescriptiveId(nodes, k) ==
    <<{DescriptiveId(nodes, j) : j \in nodes[k].nodes_from},
      nodes[k].operation.operation_type, nodes[k].custom_params>>

KeptAfter(m, rem, k) == (0..(m - 1)) \ {rem[h] : h \in 1..k}

\* the distance from position p of the chosen list to its nearest
\* neighbour among the kept positions
NearestDistance(inds, ch, kept, p) ==
    LET ds == {SquaredDistance(At(inds, At(ch, p)), At(inds, At(ch, q))) :
                   q \in kept \ {p}}
    IN  CHOOSE d \in ds : \A e \in ds : d <= e

\* C22: the first step picks an individual exactly when no other dominates
\* it; when these are at most the target all of them are in the result;
\* when they are more, the result is the target number of them, left after
\* removing one at a time a kept individual whose nearest kept neighbour is
\* nearest, never the same individual twice.
C22_NonDominatedPreferred ==
    s_pc = "done" =>
        LET ch == NonDominated(s_individuals)
            rem == ToRemove(s_individuals, ch, s_pop_size)
        IN  /\ SeqToSet(ch) = {i \in 0..(Len(s_individuals) - 1) :
                                  DominatingInds(s_individuals, i) = {}}
            /\ Len(ch) <= s_pop_size =>
                  SeqToSet(ch) \subseteq SeqToSet(s_result.list)
            /\ Len(ch) > s_pop_size =>
                  /\ ~s_result.raised
                  /\ Len(s_result.list) = s_pop_size
                  /\ SeqToSet(s_result.list) \subseteq SeqToSet(ch)
                  /\ Len(rem) = Len(ch) - s_pop_size
                  /\ NoDuplicates(rem)
                  /\ \A k \in 1..Len(rem) :
                        LET kept == KeptAfter(Len(ch), rem, k - 1)
                        IN  /\ rem[k] \in kept
                            /\ \A q \in kept :
                                  NearestDistance(s_individuals, ch, kept, rem[k])
                                    <= NearestDistance(s_individuals, ch, kept, q)
                  /\ SeqToSet(s_result.list)
                        = {At(ch, p) : p \in KeptAfter(Len(ch), rem, Len(rem))}

\* three individuals none of which dominates another, cut down to one by
\* two removals
C22_Witness ==
    /\ s_pc = "done"
    /\ Len(NonDominated(s_individuals)) = 3
    /\ s_pop_size = 1
    /\ Len(s_result.list) = 1
    /\ Len(ToRemove(s_individuals, NonDominated(s_individuals), 1)) = 2

\* the k-th smallest of the distances from individual i to all the other
\* individuals of the population (k = 1 is the nearest neighbour)
RECURSIVE SortedDistances(_, _, _)
SortedDistances(inds, i, others) ==
    IF others = {} THEN <<>>
    ELSE LET j == CHOOSE x \in others : \A y \in others :
                      SquaredDistance(At(inds, i), At(inds, x))
                        <= SquaredDistance(At(inds, i), At(inds, y))
         IN  <<SquaredDistance(At(inds, i), At(inds, j))>>
                 \o SortedDistances(inds, i, others \ {j})

KthNeighbourDistance(inds, i, k) ==
    SortedDistances(inds, i, (0..(Len(inds) - 1)) \ {i})[k]

\* C23 (as stated): when fewer individuals are non-dominated than the
\* target, the result is filled up with dominated individuals ranked by raw
\* fitness plus density, the density of every individual coming from its
\* k-th nearest-neighbour distance to all other individuals, for one k.
C23_DensityFromAllNeighbours ==
    (s_pc = "done" /\ Len(NonDominated(s_individuals)) < s_pop_size
        /\ Len(s_individuals) > 1) =>
        \E k \in 1..(Len(s_individuals) - 1) :
            s_result.list
              = FillUp(s_individuals, s_pop_size,
                       [i \in 0..(Len(s_individuals) - 1) |->
                            KthNeighbourDistance(s_individuals, i, k)])

\* C24: a call on a given population and target can return one list only,
\* whatever pivots _randomized_select draws; among the individuals filled
\* in, those of equal ranking value come in ascending input position, and
\* so do the non-dominated ones.
C24_Spea2Deterministic ==
    s_pc = "done" =>
        LET ch == NonDominated(s_individuals)
            fits == RawFits(s_individuals)
            list == s_result.list
        IN  /\ Spea2Selection(s_individuals, s_pop_size) = {s_result}
            /\ \A a, b \in 1..Len(list) :
                  (a < b /\ b <= Len(ch)) => list[a] < list[b]
            /\ Len(ch) < s_pop_size =>
                  \A kth \in KthChoices(s_individuals) :
                      \A a, b \in (Len(ch) + 1)..Len(list) :
                          (/\ a < b
                           /\ fits[list[a]] = fits[list[b]]
                           /\ kth[list[a]] = kth[list[b]])
                              => list[a] < list[b]

\* a call that fills in two dominated individuals of equal ranking value
\* after the pivots were drawn on lists of three distances
C24_Witness ==
    /\ s_pc = "done"
    /\ Len(s_individuals) = 3
    /\ Len(NonDominated(s_individuals)) = 1
    /\ Len(s_result.list) = 3
    /\ RawFits(s_individuals)[s_result.list[2]]
          = RawFits(s_individuals)[s_result.list[3]]
    /\ \A kth \in KthChoices(s_individuals) :
          kth[s_result.list[2]] = kth[s_result.list[3]]

\* C25: a call returns a list of its own holding the baseline rules (the
\* caller's rules when it passed some, the common rules otherwise) in their
\* order, followed by the time-series rules exactly for ts_forecasting, by
\* the classification rules exactly for classification and by nothing for
\* any other task or none; no step changes a module-level rule list.
C25_RulesByTask ==
    [][/\ common_rules' = common_rules
       /\ ts_rules' = ts_rules
       /\ class_rules' = class_rules
       /\ Len(vr_returned') > Len(vr_returned) =>
             LET baseline == IF vr_call'.rules # <<>> THEN vr_call'.rules
                             ELSE common_rules
                 list == vr_call'.result
             IN  /\ vr_returned' = Append(vr_returned, list)
                 /\ SubSeq(list, 1, Len(baseline)) = baseline
                 /\ SubSeq(list, Len(baseline) + 1, Len(list))
                       = IF vr_call'.task_type = "ts_forecasting"
                         THEN ts_rules
                         ELSE IF vr_call'.task_type = "classification"
                         THEN class_rules
                         ELSE <<>>]_vars

\* a time-series call without rules of the caller was made, the caller
\* extended the list it got, and a later classification call returned the
\* common rules followed by the classification rules
C25_Witness ==
    /\ Len(vr_returned) = 2
    /\ Len(vr_returned[1]) = Len(common_rules) + Len(ts_rules) + 1
    /\ vr_returned[1][Len(vr_returned[1])] = "caller_rule"
    /\ vr_call.task_type = "classification"
    /\ vr_call.rules = <<>>
    /\ vr_returned[2] = common_rules \o class_rules
    /\ Len(common_rules) = 11

\* the places (generation, position) at which a descriptive id occurs
PlacesOf(gens, id) ==
    {p \in (0..(Len(gens) - 1)) \X (0..(MaxLbIndividuals - 1)) :
        /\ p[2] < Len(gens[p[1] + 1])
        /\ gens[p[1] + 1][p[2] + 1].descriptive_id = id}

\* C26 (as stated): the leaderboard has every descriptive id of the history
\* at most once, each with the place of its first appearance (earliest
\* generation, lowest position in it), in descending order of fitness, and
\* at most top_n rows.
C26_LeaderboardFirstAppearance ==
    lb_pc = "done" =>
        LET rows == lb_output.top_individuals
        IN  /\ Len(rows) <= lb_top_n
            /\ \A a, b \in 1..Len(rows) :
                  /\ a # b => rows[a].ind.descriptive_id
                                  # rows[b].ind.descriptive_id
                  /\ a < b => rows[a].ind.fitness >= rows[b].ind.fitness
            /\ \A a \in 1..Len(rows) :
                  LET places == PlacesOf(lb_individuals,
                                         rows[a].ind.descriptive_id)
                      here == <<rows[a].gen_num, rows[a].ind_num>>
                  IN  /\ here \in places
                      /\ \A p \in places :
                            \/ here[1] < p[1]
                            \/ here[1] = p[1] /\ here[2] <= p[2]

\* C27: a call with pop_size below the number of individuals returns
\* pop_size individuals of pairwise distinct uid, all taken from the list
\* passed in, and takes exactly those out of that list, which keeps the
\* others in their order; a call with pop_size equal to the number of
\* individuals returns the list passed in, which is left as it was.
C27_SelectionSplitsInput ==
    is_pc = "returned" =>
        /\ is_pop_size < Len(is_input) =>
              /\ is_returned = "chosen"
              /\ Len(is_chosen) = is_pop_size
              /\ \A j, k \in 1..Len(is_chosen) :
                    j # k => is_chosen[j].uid # is_chosen[k].uid
              /\ SeqToSet(is_chosen) \subseteq SeqToSet(is_input)
              /\ SeqToSet(is_chosen) \cap SeqToSet(is_individuals) = {}
              /\ SeqToSet(is_chosen) \cup SeqToSet(is_individuals)
                    = SeqToSet(is_input)
              /\ Len(is_individuals) = Len(is_input) - is_pop_size
              /\ \A j, k \in 1..Len(is_individuals) :
                    j < k => \E a, b \in 1..Len(is_input) :
                                /\ a < b
                                /\ is_input[a] = is_individuals[j]
                                /\ is_input[b] = is_individuals[k]
        /\ is_pop_size = Len(is_input) =>
              /\ is_returned = "individuals"
              /\ is_chosen = is_input
              /\ is_individuals = is_input

\* two of three individuals were selected, one by each kind of selection
C27_Witness ==
    /\ is_pc = "returned"
    /\ Len(is_input) = 3
    /\ is_pop_size = 2
    /\ Len(is_chosen) = 2
    /\ Len(is_individuals) = 1
    /\ selection_types = {"tournament", "spea2"}
    /\ is_chosen[1] # is_input[1]

\* C28: when pop_size differs from the number of individuals, after a
\* normal return the operator holds another requirements object, with the
\* original pop_size, and the object it held at the call is left with
\* pop_size 1; when the inner selection raises, the operator still holds
\* the object it held at the call, with pop_size 1.
C28_RequirementsSwapped ==
    /\ (is_pc = "returned" /\ is_pop_size # Len(is_input)) =>
          /\ self_requirements # 1
          /\ req_heap[self_requirements].pop_size = is_pop_size
          /\ req_heap[1].pop_size = 1
    /\ is_pc = "raised" =>
          /\ self_requirements = 1
          /\ req_heap[self_requirements].pop_size = 1

\* a call with pop_size 2 on three individuals has returned
C28_Witness ==
    /\ is_pc = "returned"
    /\ is_pop_size = 2
    /\ Len(is_input) = 3
    /\ self_requirements = 2
    /\ req_heap = <<[pop_size |-> 1], [pop_size |-> 2]>>

\* C29: a call that finds more seeds stored than pop_size returns the first
\* pop_size of them and stores that shorter list back, and no step but
\* with_initial_graphs stores another list, so that later calls return at
\* most those seeds whatever pop_size is by then; the random-growth function
\* a call installs stays the generation function in every later call.
C29_TruncationPersists ==
    [][/\ (g_pc = "idle" /\ g_pc' = "returned") =>
             /\ g_result' = Truncate(initial_graphs.list, req_pop_size)
             /\ initial_graphs' = ListOf(g_result')
       /\ initial_graphs' # initial_graphs =>
             \/ g_pc = "idle" /\ g_pc' = "returned"
             \/ /\ g_pc = "idle" /\ g_pc' = "idle"
                /\ initial_graphs' = ListOf(supplied_graphs')
       /\ (g_pc = "idle" /\ g_pc' = "loop" /\ generation_function = "None")
             => generation_function' = "random"
       /\ (generation_function = "random" /\ generation_function' # "random")
             => /\ generation_function' = "custom"
                /\ g_pc = "idle" /\ g_pc' = "idle"]_vars

\* two seeds were supplied, a call with pop_size 1 cut them down, pop_size
\* was raised to 2 and the next call returned the one seed that was left
C29_Witness ==
    /\ g_pc = "returned"
    /\ Len(supplied_graphs) = 2
    /\ req_pop_size = 2
    /\ g_result = <<supplied_graphs[1]>>
    /\ initial_graphs = ListOf(g_result)

\* C30: clear empties the registry without waiting for the lock and
\* without touching it; the last lookup of a constructor call, made after
\* the lock is released, raises a missing-key error exactly when the
\* registry is empty by then, and returns the registered instance
\* otherwise; a call that finds the registry empty under the lock creates
\* an instance that no earlier call has created or returned, and registers
\* it.
C30_ClearNotSynchronised ==
    /\ []((init_runs <= MaxCleared
              /\ \E t \in Threads : sm_pc[t] \in {"idle", "raised"})
                 => ENABLED SingletonClear)
    /\ [][/\ (instances # 0 /\ instances' = 0) => lock' = lock
          /\ \A t \in Threads :
                /\ (sm_pc[t] = "return" /\ sm_pc'[t] # "return") =>
                      IF instances = 0
                      THEN sm_pc'[t] = "raised" /\ sm_returned' = sm_returned
                      ELSE /\ sm_pc'[t] = "idle"
                           /\ sm_returned' = sm_returned \cup {instances}
                /\ (sm_pc[t] = "check" /\ sm_pc'[t] # "check") =>
                      sm_pc'[t] = IF instances = 0 THEN "construct"
                                  ELSE "release"
                /\ (sm_pc[t] = "construct" /\ sm_pc'[t] # "construct") =>
                      /\ sm_instance'[t] > init_runs
                      /\ sm_instance'[t] \notin sm_returned
                      /\ sm_pc'[t] = "store"
                /\ (sm_pc[t] = "store" /\ sm_pc'[t] # "store") =>
                      instances' = sm_instance[t]]_vars

\* a thread registered the only instance ever created, the registry was
\* cleared before the thread looked the instance up, and the call of the
\* thread ended with the missing-key error; a later call then created and
\* returned a second instance
C30_Witness ==
    /\ \E t \in Threads : sm_pc[t] = "raised"
    /\ init_runs = 2
    /\ sm_returned = {2}
    /\ instances = 2

====
